---- MODULE Spec2Model ----
(***************************************************************************)
(* Origami: the journal password guard (PasswordManager), the settings     *)
(* store behind it, the journal page's authentication flow, the journal    *)
(* entries (JournalEntry and the entry pages) and the cipher               *)
(* (EncryptionManager).                                                    *)
(*                                                                         *)
(* The settings table is persisted; the PasswordManager objects, the       *)
(* journal page and the profile page live in process memory and are        *)
(* rebuilt by every launch.  MainWindow builds one JournalWidget and one   *)
(* ProfileWidget, and each of them builds its own PasswordManager over the *)
(* same settings table.                                                    *)
(*                                                                         *)
(* The model follows PasswordManager in its two uses: inside the running   *)
(* application, where the pages' handlers are its only callers (mode       *)
(* "app"), and on its own, one object whose public methods a caller        *)
(* invokes in any order with any arguments (mode "unit").  The entries,    *)
(* the cipher and the settings store have specifications of their own:     *)
(* SpecJournal, SpecCipher and SpecSettings.  SpecFault is the guard over  *)
(* a settings store whose calls can fail, and SpecPomodoro (FairPomodoro   *)
(* with the QTimer's fairness) is the pomodoro timer (PomodoroWidget).     *)
(***************************************************************************)
EXTENDS Integers, Sequences, FiniteSets, TLC

\* ---------------------------------------------------------------- bounds
\* The clock (time.time(), seconds) is sampled every TickStep seconds from
\* StartTime up to MaxTime.  StartTime stands for the epoch offset: it is at
\* least lockout_duration, as every real clock reading is.
StartTime == 100
TickStep == 20
MaxTime == 240

\* The passwords the user types.  "" is the empty input field, "wrong" is
\* shorter than the 6 characters the profile page asks for.
Passwords == {"", "wrong", "abc123", "hunter2"}

\* The PasswordManager objects: the journal page's, the profile page's, and
\* the one that is used on its own.
Standalone == "standalone"
Instances == {"journal", "profile", Standalone}

\* The journal's clock: DayTicks ticks make a day, the clock runs from
\* StartWall to MaxWall.  AUTOINCREMENT hands out the ids up to MaxId, and at
\* most MaxTimers return-to-dashboard callbacks are pending at a time.
DayTicks == 3
StartWall == DayTicks
MaxWall == 6
MaxId == 2
MaxTimers == 2

\* the hosts' time zones: a tick west of UTC, and UTC
UtcOffsets == {-1, 0}

\* the dates the date selector is set to
Dates == {[date |-> 1], [date |-> 2]}

\* what the user leaves in the editor: '', ' ', ' a\n', 'b c '
EditorTexts == {<< >>, <<32>>, <<32, 97, 10>>, <<98, 32, 99, 32>>}

\* the arguments of JournalEntry.create and create_with_date, the strings as
\* code points: ('t1', 'a', None, False) and ('t2', 'b', 4, True)
Drafts ==
    {[title |-> <<116, 49>>, content |-> <<97>>, mood_rating |-> << >>, is_encrypted |-> FALSE],
     [title |-> <<116, 50>>, content |-> <<98>>, mood_rating |-> <<4>>, is_encrypted |-> TRUE]}

\* the ciphertexts found in the encrypted_content column: 'b' under the master
\* key (98 xor 100), and a byte that decrypts to no UTF-8 text (255 xor 100 is a
\* continuation byte)
EncryptedContents == {<<6>>, <<255>>}

\* what the user leaves in the search field: '', ' a'
SearchTexts == {<< >>, <<32, 97>>}

\* the queries a search is asked: '', 'a', 'A', 'b', 'Entry', 't1', '-11', 'x'
Queries == {<< >>, <<97>>, <<65>>, <<98>>, <<69, 110, 116, 114, 121>>, <<116, 49>>,
            <<45, 49, 49>>, <<120>>}

\* max_length of get_content_preview: 1, 3, the default and the entry card's
PreviewLengths == {1, 3, 150, 200}

\* entry_date of create_with_date: a date, or a datetime
EntryDates == Dates \cup {[date |-> 1, time |-> 1]}

\* the arguments of JournalEntry.update, each None (<< >>) or supplied
\* ('t3', 'c', 5)
AllPatches ==
    [title : {<< >>, <<(<<116, 51>>)>>}, content : {<< >>, <<(<<99>>)>>}, mood_rating : {<< >>, <<5>>}]

\* the calls of update that are made: no argument, content alone, title and mood_rating
Patches ==
    {patch \in AllPatches : /\ (patch.title = << >>) = (patch.mood_rating = << >>)
                            /\ patch.title = << >> \/ patch.content = << >>}

\* the plaintexts and passwords handed to the cipher, as code points:
\* '', 'a', 'ab', 'abc', 'e-acute', 'a e-acute', 'euro sign'
CipherTexts == {<< >>, <<97>>, <<97, 98>>, <<97, 98, 99>>, <<233>>, <<97, 233>>, <<8364>>}
\* '', 'a', 'b', 'ab', 'abab', 'abc', 'e-acute'
CipherPasswords == {<< >>, <<97>>, <<98>>, <<97, 98>>, <<97, 98, 97, 98>>, <<97, 98, 99>>, <<233>>}

\* the keys and values handed to set_setting
SettingKeys == {"journal_password_hash", "journal_password_enabled",
                "journal_lockout_time", "profile_last_updated"}
SettingValues == {"", "0", "true", "2024-01-15T10:30:00"}

\* the pomodoro timer: the sessions that are started, the presses of Apply
\* Duration, and what the duration fields hold at a press: a field is empty,
\* holds an integer, or holds a text int() rejects
MaxSessions == 2
MaxApplies == 2
EmptyField == [kind |-> "empty", value |-> 0]
IntField(n) == [kind |-> "int", value |-> n]
BadField == [kind |-> "invalid", value |-> 0]
DurationInputs ==
    {<<EmptyField, EmptyField, EmptyField>>,
     <<IntField(0), IntField(0), IntField(3)>>,
     <<EmptyField, IntField(0), IntField(75)>>,
     <<IntField(0), IntField(1), IntField(-1)>>,
     <<IntField(0), BadField, IntField(5)>>}

\* how many calls of the settings store succeed before one fails; no method
\* of the guard makes as many as 8
StoreCalls == 0..8

\* ------------------------------------------------------ program constants
lockout_duration == 60

VARIABLES
    mode,       \* "app": the application and its pages; "unit": one PasswordManager alone
    now,        \* time.time()
    settings,   \* app_settings table: key -> value, for the keys that have a row
    running,    \* the process is up (MainWindow built)
    pm,         \* the fields of each PasswordManager
    journal,    \* JournalWidget fields
    profile,    \* ProfileWidget: which password form build_password_form built
    consec,     \* per instance: verify_password calls that returned False in a row
    written,    \* per key: the value the last write of the key's row stored
    wall,       \* the host clock, UTC, in ticks
    utc_offset, \* the host's time zone: local time is wall + utc_offset
    entries,    \* journal_entries table: id -> row
    sqlite_sequence,  \* the highest id AUTOINCREMENT has handed out
    session,    \* JournalWidget: current_entry_date, the page journal_stack shows, timers,
                \* the editor's text and the search query
    scheduled,  \* how many of the pending callbacks the open editing session scheduled
    plaintext,  \* the text handed to the cipher
    secret,     \* the password handed to the cipher
    blob,       \* the ciphertext last produced
    decrypted,  \* the result of the last decryption
    pomodoro,   \* PomodoroWidget fields, and whether ui_timer is active
    applies     \* how many times Apply Duration was pressed

settingsVars == <<written>>
storeVars == <<wall, utc_offset, entries, sqlite_sequence, session, scheduled>>
cipherVars == <<plaintext, secret, blob, decrypted>>
pomodoroVars == <<pomodoro, applies>>

vars == <<mode, now, settings, running, pm, journal, profile, consec,
          written, wall, utc_offset, entries, sqlite_sequence, session, scheduled,
          plaintext, secret, blob, decrypted, pomodoro, applies>>

\* ------------------------------------------------------- settings store
\* The app_settings table is the set of its rows, each a key and a value (the
\* updated_at column is written and never read).  key is the PRIMARY KEY.

\* SELECT ... WHERE key = ?
rows_of(s, key) == {r \in s : r.key = key}

\* database/db.py get_setting: the row's value, or the default without a row
get_setting(s, key, default) ==
    LET result == rows_of(s, key) IN
    IF result # {} THEN (CHOOSE r \in result : TRUE).value ELSE default

\* set_setting as a plain INSERT, the row of the key left in place
set_setting_insert(s, key, value) ==
    s \cup {[key |-> key, value |-> value]}

\* database/db.py set_setting: INSERT OR REPLACE, the row that holds the key
\* is deleted and the new row inserted
set_setting(s, key, value) ==
    (s \ rows_of(s, key)) \cup {[key |-> key, value |-> value]}

\* database/db.py set_default_settings: the journal keys of its dict
DefaultSettings ==
    [k \in {"journal_password_hash", "journal_password_enabled", "journal_lockout_time"} |->
        CASE k = "journal_password_hash" -> ""
          [] k = "journal_password_enabled" -> "false"
          [] k = "journal_lockout_time" -> "0"]

\* set_default_settings with INSERT OR REPLACE: every default is written anew
set_default_settings_replace(s) ==
    {r \in s : r.key \notin DOMAIN DefaultSettings}
        \cup {[key |-> k, value |-> DefaultSettings[k]] : k \in DOMAIN DefaultSettings}

\* INSERT OR IGNORE of every default: a key that has a row keeps it
set_default_settings(s) ==
    s \cup {[key |-> k, value |-> DefaultSettings[k]] :
                k \in {d \in DOMAIN DefaultSettings : rows_of(s, d) = {}}}

\* --------------------------------------------------------- conversions

\* str(float): Python prints an integral float with a trailing ".0"
StrOfFloat(t) == ToString(t) \o ".0"

\* the readings the clock can give
ClockReadings == {t \in StartTime..MaxTime : (t - StartTime) % TickStep = 0}

\* float(str): reads both the literal '0' and what str(float) wrote
FloatOfStr(str) ==
    IF str = "0" THEN 0
    ELSE CHOOSE t \in ClockReadings : StrOfFloat(t) = str

\* hashlib.sha256(password.encode()).hexdigest(), by its first 8 hex digits
hash_password(password) ==
    CASE password = "" -> "e3b0c442"
      [] password = "wrong" -> "8810ad58"
      [] password = "abc123" -> "6ca13d52"
      [] password = "hunter2" -> "f52fbd32"

\* ------------------------------------------------------ PasswordManager
\* Every method is an operator from the settings table s, the manager's
\* fields m and the clock t to the returned value and the new s and m.
\* last_attempt_time is written by verify_password and read only by the
\* statement that follows the write, so it is the local t there and no field.

NewPasswordManager == [failed_attempts |-> 0]

reset_failed_attempts(s, m) ==
    [settings |-> set_setting(s, "journal_lockout_time", "0"),
     pm |-> [m EXCEPT !.failed_attempts = 0]]

\* is_locked with the threshold one too high
is_locked_threshold_6(s, m, t) ==
    IF m.failed_attempts < 6
    THEN [ret |-> FALSE, settings |-> s, pm |-> m]
    ELSE LET lockout_time == FloatOfStr(get_setting(s, "journal_lockout_time", "0")) IN
         IF t - lockout_time >= lockout_duration
         THEN LET r == reset_failed_attempts(s, m) IN
              [ret |-> FALSE, settings |-> r.settings, pm |-> r.pm]
         ELSE [ret |-> TRUE, settings |-> s, pm |-> m]

\* is_locked with the window closed at its last second (> for >=)
is_locked_strict_window(s, m, t) ==
    IF m.failed_attempts < 5
    THEN [ret |-> FALSE, settings |-> s, pm |-> m]
    ELSE LET lockout_time == FloatOfStr(get_setting(s, "journal_lockout_time", "0")) IN
         IF t - lockout_time > lockout_duration
         THEN LET r == reset_failed_attempts(s, m) IN
              [ret |-> FALSE, settings |-> r.settings, pm |-> r.pm]
         ELSE [ret |-> TRUE, settings |-> s, pm |-> m]

is_locked(s, m, t) ==
    IF m.failed_attempts < 5
    THEN [ret |-> FALSE, settings |-> s, pm |-> m]
    ELSE LET lockout_time == FloatOfStr(get_setting(s, "journal_lockout_time", "0")) IN
         IF t - lockout_time >= lockout_duration
         THEN LET r == reset_failed_attempts(s, m) IN
              [ret |-> FALSE, settings |-> r.settings, pm |-> r.pm]
         ELSE [ret |-> TRUE, settings |-> s, pm |-> m]

\* set_password without the write of the enabled flag
set_password_no_flag(s, m, password) ==
    LET s1 == set_setting(s, "journal_password_hash", hash_password(password))
        r == reset_failed_attempts(s1, m)
    IN  [ret |-> TRUE, settings |-> r.settings, pm |-> r.pm]

set_password(s, m, password) ==
    LET s1 == set_setting(s, "journal_password_hash", hash_password(password))
        s2 == set_setting(s1, "journal_password_enabled", "true")
        r == reset_failed_attempts(s2, m)
    IN  [ret |-> TRUE, settings |-> r.settings, pm |-> r.pm]

\* the mismatch and match branches of verify_password, after the lock check
compare_password(l, t, password) ==
    LET stored_hash == get_setting(l.settings, "journal_password_hash", "") IN
    IF hash_password(password) # stored_hash
    THEN LET m1 == [l.pm EXCEPT !.failed_attempts = @ + 1] IN
         [ret |-> FALSE,
          settings |-> IF m1.failed_attempts >= 5
                       THEN set_setting(l.settings, "journal_lockout_time", StrOfFloat(t))
                       ELSE l.settings,
          pm |-> m1]
    ELSE LET r == reset_failed_attempts(l.settings, l.pm) IN
         [ret |-> TRUE, settings |-> r.settings, pm |-> r.pm]

\* verify_password without the is_locked() check that opens it
verify_password_no_lock_check(s, m, t, password) ==
    LET l == [ret |-> FALSE, settings |-> s, pm |-> m] IN
    IF get_setting(s, "journal_password_hash", "") = ""
    THEN [ret |-> TRUE, settings |-> s, pm |-> m]
    ELSE compare_password(l, t, password)

\* verify_password without the open-access return for an empty stored hash
verify_password_no_open_access(s, m, t, password) ==
    LET l == is_locked(s, m, t) IN
    IF l.ret THEN [ret |-> FALSE, settings |-> l.settings, pm |-> l.pm]
    ELSE compare_password(l, t, password)

\* verify_password whose match leaves the failure counter alone
verify_password_no_reset(s, m, t, password) ==
    LET l == is_locked(s, m, t)
        stored_hash == get_setting(l.settings, "journal_password_hash", "")
    IN  IF l.ret THEN [ret |-> FALSE, settings |-> l.settings, pm |-> l.pm]
        ELSE IF stored_hash = "" \/ hash_password(password) = stored_hash
             THEN [ret |-> TRUE, settings |-> l.settings, pm |-> l.pm]
             ELSE compare_password(l, t, password)

\* verify_password that counts a refused attempt as one more failure
verify_password_counts_when_locked(s, m, t, password) ==
    LET l == is_locked(s, m, t) IN
    IF l.ret
    THEN [ret |-> FALSE, settings |-> l.settings,
          pm |-> [l.pm EXCEPT !.failed_attempts = @ + 1]]
    ELSE IF get_setting(l.settings, "journal_password_hash", "") = ""
         THEN [ret |-> TRUE, settings |-> l.settings, pm |-> l.pm]
         ELSE compare_password(l, t, password)

verify_password(s, m, t, password) ==
    LET l == is_locked(s, m, t) IN
    IF l.ret THEN [ret |-> FALSE, settings |-> l.settings, pm |-> l.pm]
    ELSE LET stored_hash == get_setting(l.settings, "journal_password_hash", "") IN
         IF stored_hash = "" THEN [ret |-> TRUE, settings |-> l.settings, pm |-> l.pm]
         ELSE LET is_correct == hash_password(password) = stored_hash IN
              IF ~is_correct
              THEN LET m1 == [l.pm EXCEPT !.failed_attempts = @ + 1]
                       last_attempt_time == t
                   IN  [ret |-> FALSE,
                        settings |-> IF m1.failed_attempts >= 5
                                     THEN set_setting(l.settings, "journal_lockout_time",
                                                      StrOfFloat(last_attempt_time))
                                     ELSE l.settings,
                        pm |-> m1]
              ELSE LET r == reset_failed_attempts(l.settings, l.pm) IN
                   [ret |-> TRUE, settings |-> r.settings, pm |-> r.pm]

\* change_password that sets the new password whatever the current one is
change_password_unverified(s, m, t, current_password, new_password) ==
    LET v == verify_password(s, m, t, current_password) IN
    set_password(v.settings, v.pm, new_password)

change_password(s, m, t, current_password, new_password) ==
    LET v == verify_password(s, m, t, current_password) IN
    IF ~v.ret THEN v
    ELSE set_password(v.settings, v.pm, new_password)

\* remove_password that clears the hash and leaves the enabled flag 'true'
remove_password_keeps_flag(s, m, t, current_password) ==
    LET v == verify_password(s, m, t, current_password) IN
    IF ~v.ret THEN v
    ELSE LET s1 == set_setting(v.settings, "journal_password_hash", "")
             r == reset_failed_attempts(s1, v.pm)
         IN  [ret |-> TRUE, settings |-> r.settings, pm |-> r.pm]

\* remove_password that turns the flag off and leaves the hash stored
remove_password_keeps_hash(s, m, t, current_password) ==
    LET v == verify_password(s, m, t, current_password) IN
    IF ~v.ret THEN v
    ELSE LET s2 == set_setting(v.settings, "journal_password_enabled", "false")
             r == reset_failed_attempts(s2, v.pm)
         IN  [ret |-> TRUE, settings |-> r.settings, pm |-> r.pm]

remove_password(s, m, t, current_password) ==
    LET v == verify_password(s, m, t, current_password) IN
    IF ~v.ret THEN v
    ELSE LET s1 == set_setting(v.settings, "journal_password_hash", "")
             s2 == set_setting(s1, "journal_password_enabled", "false")
             r == reset_failed_attempts(s2, v.pm)
         IN  [ret |-> TRUE, settings |-> r.settings, pm |-> r.pm]

has_password(s) ==
    get_setting(s, "journal_password_hash", "") # ""
    /\ get_setting(s, "journal_password_enabled", "false") = "true"

Max(a, b) == IF a >= b THEN a ELSE b

get_lockout_remaining(s, m, t) ==
    LET l == is_locked(s, m, t) IN
    IF ~l.ret THEN [ret |-> 0, settings |-> l.settings, pm |-> l.pm]
    ELSE [ret |-> Max(0, lockout_duration
                         - (t - FloatOfStr(get_setting(l.settings, "journal_lockout_time", "0")))),
          settings |-> l.settings, pm |-> l.pm]

\* ------------------------------- PasswordManager over a store that fails
\* get_setting and set_setting open the database file on every call and catch
\* nothing: a call that fails raises (sqlite3.Error) into the method that made
\* it.  A method call in progress is c: the table, the manager's fields, the
\* number of store calls that still succeed (left) and whether one has failed.
\* What a method did before the failing call stays done.

Begin(s, m, left) == [settings |-> s, pm |-> m, left |-> left, failed |-> FALSE]

\* one call of get_setting or set_setting
store_call(c) ==
    IF c.left = 0 THEN [c EXCEPT !.failed = TRUE] ELSE [c EXCEPT !.left = @ - 1]

\* set_setting(key, value)
store_write(c, key, value) ==
    LET c1 == store_call(c) IN
    IF c1.failed THEN c1
    ELSE [c1 EXCEPT !.settings = set_setting(@, key, value)]

\* what a method hands to its caller: the exception when a store call failed
\* and the method does not catch it, the returned value otherwise
Outcome(ret, c, catches) ==
    [raised |-> c.failed /\ ~catches,
     failed |-> c.failed,
     ret |-> IF c.failed THEN FALSE ELSE ret,
     settings |-> c.settings,
     pm |-> c.pm,
     left |-> c.left]

\* reset_failed_attempts: the counter is cleared before the write
reset_failed_attempts_faulty(c) ==
    store_write([c EXCEPT !.pm.failed_attempts = 0], "journal_lockout_time", "0")

\* is_locked: no try
is_locked_faulty(c, t) ==
    IF c.pm.failed_attempts < 5 THEN [ret |-> FALSE, c |-> c]
    ELSE LET c1 == store_call(c) IN
         IF c1.failed THEN [ret |-> FALSE, c |-> c1]
         ELSE LET lockout_time ==
                      FloatOfStr(get_setting(c1.settings, "journal_lockout_time", "0")) IN
              IF t - lockout_time >= lockout_duration
              THEN [ret |-> FALSE, c |-> reset_failed_attempts_faulty(c1)]
              ELSE [ret |-> TRUE, c |-> c1]

\* set_password: the one method with a try; its bare except returns False
set_password_faulty(c, password) ==
    LET c1 == store_write(c, "journal_password_hash", hash_password(password))
        c2 == IF c1.failed THEN c1 ELSE store_write(c1, "journal_password_enabled", "true")
        c3 == IF c2.failed THEN c2 ELSE reset_failed_attempts_faulty(c2)
    IN  Outcome(TRUE, c3, TRUE)

\* verify_password: no try
verify_password_faulty(c, t, password) ==
    LET l == is_locked_faulty(c, t) IN
    IF l.c.failed \/ l.ret THEN Outcome(FALSE, l.c, FALSE)
    ELSE LET c1 == store_call(l.c) IN
         IF c1.failed THEN Outcome(FALSE, c1, FALSE)
         ELSE LET stored_hash == get_setting(c1.settings, "journal_password_hash", "") IN
              IF stored_hash = "" THEN Outcome(TRUE, c1, FALSE)
              ELSE IF hash_password(password) # stored_hash
                   THEN LET c2 == [c1 EXCEPT !.pm.failed_attempts = @ + 1] IN
                        Outcome(FALSE,
                                IF c2.pm.failed_attempts >= 5
                                THEN store_write(c2, "journal_lockout_time", StrOfFloat(t))
                                ELSE c2,
                                FALSE)
                   ELSE Outcome(TRUE, reset_failed_attempts_faulty(c1), FALSE)

\* change_password: no try of its own; set_password's covers the second half
change_password_faulty(c, t, current_password, new_password) ==
    LET v == verify_password_faulty(c, t, current_password) IN
    IF v.raised \/ ~v.ret THEN v
    ELSE set_password_faulty(Begin(v.settings, v.pm, v.left), new_password)

\* remove_password: no try
remove_password_faulty(c, t, current_password) ==
    LET v == verify_password_faulty(c, t, current_password) IN
    IF v.raised \/ ~v.ret THEN v
    ELSE LET c0 == Begin(v.settings, v.pm, v.left)
             c1 == store_write(c0, "journal_password_hash", "")
             c2 == IF c1.failed THEN c1
                   ELSE store_write(c1, "journal_password_enabled", "false")
             c3 == IF c2.failed THEN c2 ELSE reset_failed_attempts_faulty(c2)
         IN  Outcome(TRUE, c3, FALSE)

\* -------------------------------------------------------- JournalWidget

\* JournalWidget.__init__: the fields before setup_ui runs.  The stacked
\* widget shows the page added first, the password page.
NewJournalWidget ==
    [password_check_done |-> FALSE,
     is_authenticated |-> FALSE,
     current_widget |-> "password_widget",
     entries_loaded |-> FALSE]

\* JournalWidget.load_entries: nothing is read unless is_authenticated
load_entries(j) ==
    IF ~j.is_authenticated THEN j
    ELSE [j EXCEPT !.entries_loaded = TRUE]

\* check_authentication_state that shows the content whatever has_password() says
check_authentication_state_open(s, j) ==
    IF j.password_check_done THEN j
    ELSE [j EXCEPT !.password_check_done = TRUE,
                   !.current_widget = "journal_stack",
                   !.is_authenticated = TRUE,
                   !.entries_loaded = TRUE]

show_password_prompt(j) ==
    [j EXCEPT !.current_widget = "password_widget"]

show_journal_content(j) ==
    load_entries([j EXCEPT !.current_widget = "journal_stack",
                           !.is_authenticated = TRUE])

\* JournalWidget.check_authentication_state (the PasswordManager it builds
\* is pm["journal"], set by the caller)
check_authentication_state(s, j) ==
    IF j.password_check_done THEN j
    ELSE LET j1 == [j EXCEPT !.password_check_done = TRUE] IN
         IF ~has_password(s) THEN show_journal_content(j1)
         ELSE show_password_prompt(j1)

\* ProfileWidget.build_password_form: the form the page shows
build_password_form(s) ==
    IF has_password(s) THEN "protection_enabled" ELSE "protection_disabled"

\* ------------------------------------------------------------ optionals
\* Python's None and a present value
None == << >>
Some(x) == <<x>>

\* ---------------------------------------------------- EncryptionManager
\* A str is the sequence of its Unicode code points, a bytes object the
\* sequence of its bytes.  A call either returns (raised FALSE, ret the value)
\* or raises (raised TRUE); every exception inside simple_encrypt and
\* simple_decrypt is re-raised as Exception.

Raise == [raised |-> TRUE, ret |-> << >>]
Return(v) == [raised |-> FALSE, ret |-> v]

\* str.encode('utf-8') of one code point (no surrogates: they are no UTF-8 text)
encode_char(c) ==
    IF c <= 127 THEN <<c>>
    ELSE IF c <= 2047 THEN <<192 + (c \div 64), 128 + (c % 64)>>
    ELSE IF c <= 65535
         THEN <<224 + (c \div 4096), 128 + ((c \div 64) % 64), 128 + (c % 64)>>
         ELSE <<240 + (c \div 262144), 128 + ((c \div 4096) % 64),
                128 + ((c \div 64) % 64), 128 + (c % 64)>>

RECURSIVE encode(_)
encode(str) ==
    IF str = << >> THEN << >>
    ELSE encode_char(Head(str)) \o encode(Tail(str))

\* the length of the UTF-8 sequence a lead byte opens, 0 for a byte that opens none
width(b) ==
    IF b <= 127 THEN 1
    ELSE IF b \in 194..223 THEN 2
    ELSE IF b \in 224..239 THEN 3
    ELSE IF b \in 240..244 THEN 4
    ELSE 0

continuation(b) == b \in 128..191

\* the bytes after the lead byte are the ones a strict decoder accepts
valid_tail(b, n) ==
    CASE n = 1 -> TRUE
      [] n = 2 -> continuation(b[2])
      [] n = 3 -> /\ IF b[1] = 224 THEN b[2] \in 160..191
                     ELSE IF b[1] = 237 THEN b[2] \in 128..159
                     ELSE continuation(b[2])
                  /\ continuation(b[3])
      [] n = 4 -> /\ IF b[1] = 240 THEN b[2] \in 144..191
                     ELSE IF b[1] = 244 THEN b[2] \in 128..143
                     ELSE continuation(b[2])
                  /\ continuation(b[3])
                  /\ continuation(b[4])

code_point(b, n) ==
    CASE n = 1 -> b[1]
      [] n = 2 -> (b[1] - 192) * 64 + (b[2] - 128)
      [] n = 3 -> (b[1] - 224) * 4096 + (b[2] - 128) * 64 + (b[3] - 128)
      [] n = 4 -> (b[1] - 240) * 262144 + (b[2] - 128) * 4096
                  + (b[3] - 128) * 64 + (b[4] - 128)

\* bytes.decode('utf-8'): UnicodeDecodeError on the first malformed sequence
RECURSIVE decode(_)
decode(b) ==
    IF b = << >> THEN Return(<< >>)
    ELSE LET n == width(b[1]) IN
         IF n = 0 \/ Len(b) < n THEN Raise
         ELSE IF ~valid_tail(b, n) THEN Raise
         ELSE LET rest == decode(SubSeq(b, n + 1, Len(b))) IN
              IF rest.raised THEN Raise
              ELSE Return(<<code_point(b, n)>> \o rest.ret)

\* byte ^ byte
RECURSIVE xor(_, _)
xor(a, b) ==
    IF a = 0 THEN b
    ELSE IF b = 0 THEN a
    ELSE 2 * xor(a \div 2, b \div 2) + ((a + b) % 2)

\* the loop of simple_encrypt and simple_decrypt: byte i (from 0) is XORed with
\* password_bytes[i % len(password_bytes)]
xor_with_key(data, password_bytes) ==
    [i \in 1..Len(data) |->
        xor(data[i], password_bytes[((i - 1) % Len(password_bytes)) + 1])]

simple_encrypt(txt, pwd) ==
    LET password_bytes == encode(pwd)
        text_bytes == encode(txt)
    IN  IF text_bytes # << >> /\ password_bytes = << >>
        THEN Raise    \* i % 0: ZeroDivisionError
        ELSE Return(<<xor_with_key(text_bytes, password_bytes), "simple_salt">>)

\* simple_decrypt that starts the key at its second byte
simple_decrypt_key_shifted(encrypted_data, pwd) ==
    LET password_bytes == encode(pwd) IN
    IF encrypted_data # << >> /\ password_bytes = << >>
    THEN Raise
    ELSE decode([i \in 1..Len(encrypted_data) |->
                    xor(encrypted_data[i], password_bytes[(i % Len(password_bytes)) + 1])])

simple_decrypt(encrypted_data, pwd) ==
    LET password_bytes == encode(pwd) IN
    IF encrypted_data # << >> /\ password_bytes = << >>
    THEN Raise    \* i % 0: ZeroDivisionError
    ELSE decode(xor_with_key(encrypted_data, password_bytes))

\* "default_master_key_2024"
master_password ==
    <<100, 101, 102, 97, 117, 108, 116, 95, 109, 97, 115, 116, 101, 114, 95,
      107, 101, 121, 95, 50, 48, 50, 52>>

encrypt_with_master_key(txt) ==
    LET r == simple_encrypt(txt, master_password) IN
    IF r.raised THEN Raise ELSE Return(r.ret[1])

decrypt_with_master_key(encrypted_data) ==
    simple_decrypt(encrypted_data, master_password)

\* decrypt_journal_entry(encrypted_data), salt and password left at None
decrypt_journal_entry(encrypted_data) == decrypt_with_master_key(encrypted_data)

\* ------------------------------------------------- dates and timestamps
\* The host clock counts ticks; a day has DayTicks of them.  A date is
\* [date], a datetime is [date, time], time counted from midnight.  A
\* timestamp stored in a TEXT column is [date, sep, time]: the date digits,
\* the character between date and time, and the time digits.

\* datetime.now(): the local time
datetime_now(w, off) ==
    [date |-> (w + off) \div DayTicks, time |-> (w + off) % DayTicks]

\* SQLite's CURRENT_TIMESTAMP: 'YYYY-MM-DD HH:MM:SS', in UTC
CURRENT_TIMESTAMP(w) ==
    [date |-> w \div DayTicks, sep |-> " ", time |-> w % DayTicks]

\* datetime.isoformat(): 'YYYY-MM-DDTHH:MM:SS[.ffffff]'
isoformat(dt) == [date |-> dt.date, sep |-> "T", time |-> dt.time]

\* datetime.fromisoformat(): any one character may stand between date and time
fromisoformat(str) == [date |-> str.date, time |-> str.time]

\* isinstance(entry_date, datetime)
is_datetime(x) == "time" \in DOMAIN x

\* datetime.combine(date, datetime.min.time()) and (date, datetime.max.time())
combine_min(d) == [date |-> d.date, time |-> 0]
combine_max(d) == [date |-> d.date, time |-> DayTicks - 1]

\* datetime.date()
date_of(dt) == [date |-> dt.date]

\* ord() of the character between date and time
char_code(c) == CASE c = " " -> 32 [] c = "T" -> 84

\* a < b and a <= b on TEXT values (SQLite's BINARY collation, byte by byte)
text_lt(a, b) ==
    \/ a.date < b.date
    \/ a.date = b.date /\ char_code(a.sep) < char_code(b.sep)
    \/ a.date = b.date /\ a.sep = b.sep /\ a.time < b.time

text_le(a, b) == a = b \/ text_lt(a, b)

\* a < b on datetime objects
datetime_lt(a, b) ==
    a.date < b.date \/ (a.date = b.date /\ a.time < b.time)

\* date.strftime('%B %d, %Y'), as the text 'day ' and the day's digit
strftime(d) == <<100, 97, 121, 32, 48 + d.date>>

\* str.strip(): leading and trailing whitespace removed (the ASCII whitespace)
whitespace == {9, 10, 11, 12, 13, 32}

RECURSIVE lstrip(_)
lstrip(str) ==
    IF str # << >> /\ Head(str) \in whitespace THEN lstrip(Tail(str)) ELSE str

RECURSIVE rstrip(_)
rstrip(str) ==
    IF str # << >> /\ str[Len(str)] \in whitespace
    THEN rstrip(SubSeq(str, 1, Len(str) - 1))
    ELSE str

\* strip that removes nothing
strip_nothing(str) == str

strip(str) == rstrip(lstrip(str))

\* --------------------------------------------------------- JournalEntry
\* The journal_entries table is a function from the ids of its rows to the
\* other columns; sqlite_sequence is AUTOINCREMENT's counter.  Every call
\* that writes takes the clock reading w (UTC ticks) and the host's offset.

\* JournalEntry(...) as get_all, get_by_date and search_entries build it from a row
JournalEntry(id, row) ==
    [id |-> id,
     title |-> row.title,
     content |-> row.content,
     encrypted_content |-> row.encrypted_content,
     is_encrypted |-> row.is_encrypted,
     mood_rating |-> IF row.mood_rating # None THEN row.mood_rating[1] ELSE 3,
     created_at |-> fromisoformat(row.created_at),
     updated_at |-> fromisoformat(row.updated_at)]

\* INSERT: the new row gets the id after the highest one ever handed out
insert(e, seq, row) ==
    [entries |-> [i \in (DOMAIN e) \cup {seq + 1} |-> IF i = seq + 1 THEN row ELSE e[i]],
     sqlite_sequence |-> seq + 1]

\* JournalEntry.create: created_at and updated_at are the column defaults
create(e, seq, w, title, content, mood_rating, is_encrypted) ==
    LET r == insert(e, seq,
                    [title |-> title, content |-> content, encrypted_content |-> None,
                     is_encrypted |-> is_encrypted, mood_rating |-> mood_rating,
                     created_at |-> CURRENT_TIMESTAMP(w),
                     updated_at |-> CURRENT_TIMESTAMP(w)])
    IN  [ret |-> r.sqlite_sequence, entries |-> r.entries, sqlite_sequence |-> r.sqlite_sequence]

\* JournalEntry.create_with_date
create_with_date(e, seq, w, off, title, content, entry_date, mood_rating, is_encrypted) ==
    LET created_at == IF is_datetime(entry_date)
                      THEN isoformat(entry_date)
                      ELSE isoformat(combine_min(entry_date))
        r == insert(e, seq,
                    [title |-> title, content |-> content, encrypted_content |-> None,
                     is_encrypted |-> is_encrypted, mood_rating |-> mood_rating,
                     created_at |-> created_at,
                     updated_at |-> isoformat(datetime_now(w, off))])
    IN  [ret |-> r.sqlite_sequence, entries |-> r.entries, sqlite_sequence |-> r.sqlite_sequence]

\* ORDER BY created_at DESC: a row comes before another with a smaller
\* created_at text; rows with the same text come out in rowid order
order_before(e, a, b) ==
    \/ text_lt(e[b].created_at, e[a].created_at)
    \/ e[a].created_at = e[b].created_at /\ a < b

RECURSIVE select_ordered(_, _)
select_ordered(e, ids) ==
    IF ids = {} THEN << >>
    ELSE LET first == CHOOSE a \in ids : \A b \in ids \ {a} : order_before(e, a, b) IN
         <<JournalEntry(first, e[first])>> \o select_ordered(e, ids \ {first})

\* JournalEntry.get_all
get_all(e) == select_ordered(e, DOMAIN e)

\* JournalEntry.get_by_date: WHERE created_at >= ? AND created_at <= ?
\* ORDER BY created_at DESC LIMIT 1, the bounds in isoformat
get_by_date(e, entry_date) ==
    LET start_date == combine_min(entry_date)
        end_date == combine_max(entry_date)
        rows == {i \in DOMAIN e : /\ text_le(isoformat(start_date), e[i].created_at)
                                  /\ text_le(e[i].created_at, isoformat(end_date))}
        row == select_ordered(e, rows)
    IN  IF row # << >> THEN Some(row[1]) ELSE None

\* JournalEntry.update: title, content and mood_rating are None or Some(value)
update(e, w, off, self, title, content, mood_rating) ==
    IF self.id = 0 THEN [self |-> self, entries |-> e]
    ELSE LET o1 == IF title # None THEN [self EXCEPT !.title = title[1]] ELSE self
             o2 == IF content # None THEN [o1 EXCEPT !.content = content[1]] ELSE o1
             o3 == IF mood_rating # None THEN [o2 EXCEPT !.mood_rating = mood_rating[1]] ELSE o2
             updates == title # None \/ content # None \/ mood_rating # None
         IN  IF ~updates THEN [self |-> o3, entries |-> e]
             ELSE [self |-> [o3 EXCEPT !.updated_at = datetime_now(w, off)],
                   entries |->
                       IF self.id \notin DOMAIN e THEN e
                       ELSE [e EXCEPT ![self.id] =
                                [@ EXCEPT !.title = IF title # None THEN title[1] ELSE @,
                                          !.content = IF content # None THEN content[1] ELSE @,
                                          !.mood_rating = IF mood_rating # None
                                                          THEN mood_rating ELSE @,
                                          !.updated_at = isoformat(datetime_now(w, off))]]]

\* JournalEntry.delete
delete(e, self) ==
    IF self.id # 0 THEN [i \in (DOMAIN e) \ {self.id} |-> e[i]] ELSE e

\* ------------------------------------------ JournalWidget: the entry pages
\* session holds the fields the entry pages use: current_entry_date (None or
\* Some(date)), the page journal_stack shows, the number of pending
\* QTimer.singleShot(1500, go_back_to_dashboard) callbacks and the message
\* show_save_feedback showed last (the timer that puts the Save button's own
\* text back two seconds later is left out: the text is read only to be put
\* back).  No call of the entry pages raises: the database file is in place.

NewSession ==
    [current_entry_date |-> None,
     journal_stack |-> "dashboard_widget",
     timers |-> 0,
     save_feedback |-> "",
     entry_text_edit |-> << >>,
     search_query |-> << >>]

\* str.lower(), for the ASCII letters
lower(str) == [i \in 1..Len(str) |-> IF str[i] \in 65..90 THEN str[i] + 32 ELSE str[i]]

\* a in b, for two str
is_in(a, b) == \E i \in 0..(Len(b) - Len(a)) : SubSeq(b, i + 1, i + Len(a)) = a

\* date.strftime("%Y-%m-%d"): the days are the 10th of January 2024 and the
\* days after it
strftime_ymd(d) == <<50, 48, 50, 52, 45, 48, 49, 45, 49, 48 + d.date>>

\* the condition that sends an entry's text through the cipher: the flag is
\* set and the BLOB is neither NULL nor empty
has_encrypted_content(entry) ==
    /\ entry.is_encrypted
    /\ entry.encrypted_content # None
    /\ entry.encrypted_content[1] # << >>

\* "[Encrypted content - unable to decrypt]"
unable_to_decrypt ==
    <<91, 69, 110, 99, 114, 121, 112, 116, 101, 100, 32, 99, 111, 110, 116, 101, 110, 116,
      32, 45, 32, 117, 110, 97, 98, 108, 101, 32, 116, 111, 32, 100, 101, 99, 114, 121,
      112, 116, 93>>

\* the first entry of a list whose created_at is on entry_date
RECURSIVE first_on_date(_, _)
first_on_date(all_entries, entry_date) ==
    IF all_entries = << >> THEN None
    ELSE IF date_of(Head(all_entries).created_at) = entry_date
         THEN Some(Head(all_entries))
         ELSE first_on_date(Tail(all_entries), entry_date)

\* load_entry_for_date without the inner try: a failed decryption ends in the
\* outer handler, which clears the editor
load_entry_for_date_clears(ss, e, entry_date) ==
    LET found == first_on_date(get_all(e), entry_date) IN
    IF found = None THEN [ss EXCEPT !.entry_text_edit = << >>]
    ELSE LET entry == found[1]
             d == decrypt_journal_entry(entry.encrypted_content[1])
         IN  [ss EXCEPT !.entry_text_edit =
                 IF has_encrypted_content(entry)
                 THEN IF d.raised THEN << >> ELSE d.ret
                 ELSE entry.content]

\* load_entry_for_date: the editor gets the text of the first entry on the
\* date, decrypted when it is encrypted, or is cleared; both handlers catch
\* every Exception, so the call never raises
load_entry_for_date(ss, e, entry_date) ==
    LET found == first_on_date(get_all(e), entry_date) IN
    IF found = None THEN [ss EXCEPT !.entry_text_edit = << >>]
    ELSE LET entry == found[1]
             d == decrypt_journal_entry(entry.encrypted_content[1])
         IN  [ss EXCEPT !.entry_text_edit =
                 IF has_encrypted_content(entry)
                 THEN IF d.raised THEN unable_to_decrypt ELSE d.ret
                 ELSE entry.content]

\* create_new_entry: the New Entry button, the date selector on selected_date
create_new_entry(ss, e, selected_date) ==
    [load_entry_for_date([ss EXCEPT !.current_entry_date = Some(selected_date)],
                         e, selected_date)
        EXCEPT !.journal_stack = "entry_widget"]

\* edit_entry: the Edit button of a listed entry
edit_entry(ss, e, entry_date) ==
    [load_entry_for_date([ss EXCEPT !.current_entry_date = Some(entry_date)],
                         e, entry_date)
        EXCEPT !.journal_stack = "entry_widget"]

\* filter_entries_by_search: the entries whose date text holds the query, or
\* whose content (decrypted when encrypted, '' when that fails) holds it
\* whatever the case of the letters
RECURSIVE filter_entries_by_search(_, _)
filter_entries_by_search(entry_list, query) ==
    IF query = << >> THEN entry_list
    ELSE IF entry_list = << >> THEN << >>
    ELSE LET entry == Head(entry_list)
             query_lower == lower(query)
             entry_date == date_of(entry.created_at)
             d == decrypt_journal_entry(entry.encrypted_content[1])
             content == IF has_encrypted_content(entry)
                        THEN IF d.raised THEN << >> ELSE d.ret
                        ELSE entry.content
             rest == filter_entries_by_search(Tail(entry_list), query)
         IN  IF is_in(query, strftime_ymd(entry_date)) THEN <<entry>> \o rest
             ELSE IF is_in(query_lower, lower(content)) THEN <<entry>> \o rest
             ELSE rest

\* load_entries: the entries the dashboard lists, the filtered ones under a
\* search query and the first 10 without one
entries_list_layout(e, search_query) ==
    LET all_entries == get_all(e) IN
    IF search_query # << >>
    THEN filter_entries_by_search(all_entries, search_query)
    ELSE SubSeq(all_entries, 1, IF Len(all_entries) < 10 THEN Len(all_entries) ELSE 10)

\* filter_entries: the search field's text has changed to txt
filter_entries(ss, txt) == [ss EXCEPT !.search_query = strip(txt)]

\* JournalEntry.search_entries: WHERE LOWER(content) LIKE ? OR LOWER(title) LIKE ?
\* with '%' + query.lower() + '%' for both, ORDER BY created_at DESC (the
\* queries hold neither of LIKE's wildcards)
search_entries(e, query) ==
    select_ordered(e, {i \in DOMAIN e : \/ is_in(lower(query), lower(e[i].content))
                                        \/ is_in(lower(query), lower(e[i].title))})

\* "[Encrypted Entry]"
encrypted_entry ==
    <<91, 69, 110, 99, 114, 121, 112, 116, 101, 100, 32, 69, 110, 116, 114, 121, 93>>

\* JournalEntry.get_content_preview(max_length)
get_content_preview(self, max_length) ==
    LET content == IF /\ self.is_encrypted
                      /\ self.encrypted_content # None
                      /\ self.encrypted_content[1] # << >>
                   THEN encrypted_entry
                   ELSE self.content
    IN  IF Len(content) > max_length
        THEN SubSeq(content, 1, max_length) \o <<46, 46, 46>>
        ELSE content

go_back_to_dashboard(ss) ==
    [ss EXCEPT !.journal_stack = "dashboard_widget",
               !.current_entry_date = None]

show_save_feedback(ss, message) == [ss EXCEPT !.save_feedback = message]

\* get_entry_for_date that finds no entry
get_entry_for_date_none(e, entry_date) == None

get_entry_for_date(e, entry_date) == first_on_date(get_all(e), entry_date)

\* update_existing_entry: UPDATE ... SET content, updated_at WHERE id
update_existing_entry(e, w, off, entry, content) ==
    IF entry.id \notin DOMAIN e THEN e
    ELSE [e EXCEPT ![entry.id] =
             [@ EXCEPT !.content = content,
                       !.updated_at = isoformat(datetime_now(w, off))]]

\* create_new_entry_record that stamps the row with the time of the save
create_new_entry_record_now(e, seq, w, off, current_entry_date, content) ==
    insert(e, seq,
           [title |-> <<69, 110, 116, 114, 121, 32, 102, 111, 114, 32>> \o strftime(current_entry_date),
            content |-> content, encrypted_content |-> None,
            is_encrypted |-> FALSE, mood_rating |-> None,
            created_at |-> isoformat(datetime_now(w, off)),
            updated_at |-> isoformat(datetime_now(w, off))])

\* create_new_entry_record: INSERT (title, content, created_at, updated_at)
create_new_entry_record(e, seq, w, off, current_entry_date, content) ==
    LET entry_title == <<69, 110, 116, 114, 121, 32, 102, 111, 114, 32>> \o strftime(current_entry_date)
        entry_datetime == combine_min(current_entry_date)
    IN  insert(e, seq,
               [title |-> entry_title, content |-> content, encrypted_content |-> None,
                is_encrypted |-> FALSE, mood_rating |-> None,
                created_at |-> isoformat(entry_datetime),
                updated_at |-> isoformat(datetime_now(w, off))])

\* save_entry: the Save button
save_entry(j, ss, e, seq, w, off) ==
    IF ~j.is_authenticated \/ ss.current_entry_date = None
    THEN [session |-> ss, entries |-> e, sqlite_sequence |-> seq]
    ELSE LET content == strip(ss.entry_text_edit) IN
         IF content = << >>
         THEN [session |-> show_save_feedback(ss, "Entry cannot be empty"),
               entries |-> e, sqlite_sequence |-> seq]
         ELSE LET existing_entry == get_entry_for_date(e, ss.current_entry_date[1])
                  saved == [show_save_feedback(ss, "Entry saved successfully")
                                EXCEPT !.timers = @ + 1]
              IN  IF existing_entry # None
                  THEN [session |-> saved,
                        entries |-> update_existing_entry(e, w, off, existing_entry[1], content),
                        sqlite_sequence |-> seq]
                  ELSE LET r == create_new_entry_record(e, seq, w, off,
                                                        ss.current_entry_date[1], content)
                       IN  [session |-> saved, entries |-> r.entries,
                            sqlite_sequence |-> r.sqlite_sequence]

\* delete_entry: the Delete button of a listed entry and the answer to the
\* confirmation dialog
delete_entry(e, entry, result) ==
    IF result = "Yes" THEN delete(e, entry) ELSE e

\* ------------------------------------------------------- PomodoroWidget

Min(a, b) == IF a <= b THEN a ELSE b

\* PomodoroWidget.__init__: the fields, then reset_timer()
NewPomodoroWidget ==
    [is_running |-> FALSE,
     is_paused |-> FALSE,
     time_remaining |-> 25 * 60,
     session_count |-> 0,
     applied_duration |-> 25 * 60,
     ui_timer |-> FALSE]

\* int(text) if text else 0: ValueError on a text that is no integer
int_or_zero(field) ==
    IF field.kind = "empty" THEN Return(0)
    ELSE IF field.kind = "int" THEN Return(field.value)
    ELSE Raise

\* apply_duration: each field clamped to its range; any ValueError falls back
\* to 25 minutes.  time_remaining is set whether the timer runs or not.
apply_duration(p, hours_text, minutes_text, seconds_text) ==
    LET h == int_or_zero(hours_text)
        m == int_or_zero(minutes_text)
        sec == int_or_zero(seconds_text)
    IN  IF h.raised \/ m.raised \/ sec.raised
        THEN [p EXCEPT !.applied_duration = 25 * 60, !.time_remaining = 25 * 60]
        ELSE LET hours == Max(0, Min(23, h.ret))
                 minutes == Max(0, Min(59, m.ret))
                 seconds == Max(0, Min(59, sec.ret))
                 duration == hours * 3600 + minutes * 60 + seconds
             IN  [p EXCEPT !.applied_duration = duration, !.time_remaining = duration]

start_timer(p) ==
    IF p.is_running THEN p
    ELSE LET p1 == IF ~p.is_paused
                   THEN [p EXCEPT !.time_remaining = p.applied_duration]
                   ELSE p
         IN  IF p1.time_remaining <= 0 THEN p1
             ELSE [p1 EXCEPT !.is_running = TRUE, !.is_paused = FALSE, !.ui_timer = TRUE]

pause_timer(p) ==
    IF p.is_running
    THEN [p EXCEPT !.is_running = FALSE, !.is_paused = TRUE, !.ui_timer = FALSE]
    ELSE p

reset_timer(p) ==
    [p EXCEPT !.is_running = FALSE, !.is_paused = FALSE,
              !.time_remaining = p.applied_duration, !.ui_timer = FALSE]

timer_finished(p) ==
    [p EXCEPT !.is_running = FALSE, !.is_paused = FALSE,
              !.session_count = @ + 1,
              !.ui_timer = FALSE,
              !.time_remaining = p.applied_duration]

\* update_timer: the slot of ui_timer's timeout
update_timer(p) ==
    IF p.is_running /\ p.time_remaining > 0
    THEN LET p1 == [p EXCEPT !.time_remaining = @ - 1] IN
         IF p1.time_remaining <= 0 THEN timer_finished(p1) ELSE p1
    ELSE p

PomodoroIdle == pomodoro = NewPomodoroWidget /\ applies = 0

\* ---------------------------------------------------------- the actions

\* one more failed verification in a row, counted up to the threshold
Failed(c) == IF c >= 5 THEN 5 ELSE c + 1

TypeOK ==
    /\ mode \in {"app", "unit"}
    /\ now \in StartTime..MaxTime
    /\ \A r \in settings : r.key \in DOMAIN DefaultSettings
    /\ running \in BOOLEAN
    /\ \A i \in Instances : pm[i].failed_attempts \in Nat
    /\ journal.is_authenticated \in BOOLEAN
    /\ profile \in {"protection_enabled", "protection_disabled"}

\* the variables of the parts a specification leaves alone
SettingsIdle == written = << >>

StoreIdle ==
    /\ wall = StartWall /\ utc_offset = 0
    /\ entries = << >> /\ sqlite_sequence = 0
    /\ session = NewSession /\ scheduled = 0

CipherIdle ==
    plaintext = << >> /\ secret = << >> /\ blob = None /\ decrypted = None

GuardIdle ==
    /\ now = StartTime
    /\ pm = [i \in Instances |-> NewPasswordManager]
    /\ consec = [i \in Instances |-> 0]

\* "app": nothing has run yet, the database file does not exist.
\* "unit": initialize_database has run and the PasswordManager is built.
Init ==
    /\ mode \in {"app", "unit"}
    /\ now = StartTime
    /\ settings = IF mode = "app" THEN {} ELSE set_default_settings({})
    /\ running = (mode = "unit")
    /\ pm = [i \in Instances |-> NewPasswordManager]
    /\ journal = NewJournalWidget
    /\ profile = "protection_disabled"
    /\ consec = [i \in Instances |-> 0]
    /\ SettingsIdle /\ StoreIdle /\ CipherIdle /\ PomodoroIdle

\* time passes, whether the application runs or not
Tick ==
    /\ now + TickStep <= MaxTime
    /\ now' = now + TickStep
    /\ UNCHANGED <<mode, settings, running, pm, journal, profile, consec>>
    /\ UNCHANGED <<settingsVars, storeVars, cipherVars, pomodoroVars>>

\* main(): initialize_database, then MainWindow builds JournalWidget (whose
\* setup_ui ends in check_authentication_state) and ProfileWidget
Launch ==
    /\ mode = "app"
    /\ ~running
    /\ running' = TRUE
    /\ settings' = set_default_settings(settings)
    /\ pm' = [i \in Instances |-> NewPasswordManager]
    /\ journal' = check_authentication_state(settings', NewJournalWidget)
    /\ profile' = build_password_form(settings')
    /\ consec' = [i \in Instances |-> 0]
    /\ UNCHANGED <<mode, now>>
    /\ UNCHANGED <<settingsVars, storeVars, cipherVars, pomodoroVars>>

\* the process exits: everything but the settings table is gone
Quit ==
    /\ mode = "app"
    /\ running
    /\ running' = FALSE
    /\ pm' = [i \in Instances |-> NewPasswordManager]
    /\ journal' = NewJournalWidget
    /\ profile' = "protection_disabled"
    /\ consec' = [i \in Instances |-> 0]
    /\ UNCHANGED <<mode, now, settings>>
    /\ UNCHANGED <<settingsVars, storeVars, cipherVars, pomodoroVars>>

\* PasswordManager.set_password(password) on instance i
SetPassword(i, password) ==
    /\ mode = "unit"
    /\ LET r == set_password(settings, pm[i], password) IN
       /\ settings' = r.settings
       /\ pm' = [pm EXCEPT ![i] = r.pm]
    /\ consec' = [consec EXCEPT ![i] = 0]
    /\ UNCHANGED <<mode, now, running, journal, profile>>
    /\ UNCHANGED <<settingsVars, storeVars, cipherVars, pomodoroVars>>

\* PasswordManager.verify_password(password) on instance i
VerifyPassword(i, password) ==
    /\ mode = "unit"
    /\ LET r == verify_password(settings, pm[i], now, password) IN
       /\ settings' = r.settings
       /\ pm' = [pm EXCEPT ![i] = r.pm]
       /\ consec' = [consec EXCEPT ![i] = IF r.ret THEN 0 ELSE Failed(@)]
    /\ UNCHANGED <<mode, now, running, journal, profile>>
    /\ UNCHANGED <<settingsVars, storeVars, cipherVars, pomodoroVars>>

\* PasswordManager.change_password(current_password, new_password) on instance i
ChangePassword(i, current_password, new_password) ==
    /\ mode = "unit"
    /\ LET r == change_password(settings, pm[i], now, current_password, new_password) IN
       /\ settings' = r.settings
       /\ pm' = [pm EXCEPT ![i] = r.pm]
       /\ consec' = [consec EXCEPT ![i] = IF r.ret THEN 0 ELSE Failed(@)]
    /\ UNCHANGED <<mode, now, running, journal, profile>>
    /\ UNCHANGED <<settingsVars, storeVars, cipherVars, pomodoroVars>>

\* PasswordManager.remove_password(current_password) on instance i
RemovePassword(i, current_password) ==
    /\ mode = "unit"
    /\ LET r == remove_password(settings, pm[i], now, current_password) IN
       /\ settings' = r.settings
       /\ pm' = [pm EXCEPT ![i] = r.pm]
       /\ consec' = [consec EXCEPT ![i] = IF r.ret THEN 0 ELSE Failed(@)]
    /\ UNCHANGED <<mode, now, running, journal, profile>>
    /\ UNCHANGED <<settingsVars, storeVars, cipherVars, pomodoroVars>>

\* PasswordManager.is_locked() on instance i
IsLocked(i) ==
    /\ mode = "unit"
    /\ LET r == is_locked(settings, pm[i], now) IN
       /\ settings' = r.settings
       /\ pm' = [pm EXCEPT ![i] = r.pm]
    /\ UNCHANGED <<mode, now, running, journal, profile, consec>>
    /\ UNCHANGED <<settingsVars, storeVars, cipherVars, pomodoroVars>>

\* PasswordManager.get_lockout_remaining() on instance i
GetLockoutRemaining(i) ==
    /\ mode = "unit"
    /\ LET r == get_lockout_remaining(settings, pm[i], now) IN
       /\ settings' = r.settings
       /\ pm' = [pm EXCEPT ![i] = r.pm]
    /\ UNCHANGED <<mode, now, running, journal, profile, consec>>
    /\ UNCHANGED <<settingsVars, storeVars, cipherVars, pomodoroVars>>

\* JournalWidget.verify_password: the Unlock button or Return on the password
\* page, with `password` in the input field (the field is never disabled, and
\* the page takes input only while the stacked widget shows it)
JournalVerifyPassword(password) ==
    /\ mode = "app" /\ running
    /\ journal.current_widget = "password_widget"
    /\ IF password = ""
       THEN UNCHANGED <<settings, pm, journal, consec>>
       ELSE LET r == verify_password(settings, pm["journal"], now, password) IN
            /\ settings' = r.settings
            /\ pm' = [pm EXCEPT !["journal"] = r.pm]
            /\ consec' = [consec EXCEPT !["journal"] = IF r.ret THEN 0 ELSE Failed(@)]
            /\ journal' = IF r.ret
                          THEN show_journal_content([journal EXCEPT !.is_authenticated = TRUE])
                          ELSE journal
    /\ UNCHANGED <<mode, now, running, profile>>
    /\ UNCHANGED <<settingsVars, storeVars, cipherVars, pomodoroVars>>

\* JournalWidget.showEvent: the page is shown again
JournalShowEvent ==
    /\ mode = "app" /\ running
    /\ journal' = IF ~journal.password_check_done
                  THEN check_authentication_state(settings, journal)
                  ELSE IF journal.is_authenticated /\ journal.current_widget = "journal_stack"
                       THEN load_entries(load_entries(journal))
                       ELSE load_entries(journal)
    /\ UNCHANGED <<mode, now, settings, running, pm, profile, consec>>
    /\ UNCHANGED <<settingsVars, storeVars, cipherVars, pomodoroVars>>

\* PasswordManager(): the caller drops the object and builds a new one
NewManager(i) ==
    /\ mode = "unit"
    /\ pm' = [pm EXCEPT ![i] = NewPasswordManager]
    /\ consec' = [consec EXCEPT ![i] = 0]
    /\ UNCHANGED <<mode, now, settings, running, journal, profile>>
    /\ UNCHANGED <<settingsVars, storeVars, cipherVars, pomodoroVars>>

\* handle_password_removed with a reset_authentication_state that sends the
\* journal page back to its password prompt
handle_password_removed_resets(j) ==
    show_password_prompt([j EXCEPT !.is_authenticated = FALSE, !.entries_loaded = FALSE])

\* MainWindow.handle_password_removed, the slot of ProfileWidget.password_removed:
\* it calls JournalWidget.reset_authentication_state, which no class defines;
\* the AttributeError ends the slot and the journal page is left as it was.
handle_password_removed(j) == j

\* ProfileWidget.set_password: the "protection disabled" form's button
ProfileSetPassword(password, confirm) ==
    /\ mode = "app" /\ running
    /\ profile = "protection_disabled"
    /\ IF password = "" \/ Len(password) < 6 \/ password # confirm
       THEN UNCHANGED <<settings, pm, profile, consec>>
       ELSE LET r == set_password(settings, pm["profile"], password) IN
            /\ settings' = r.settings
            /\ pm' = [pm EXCEPT !["profile"] = r.pm]
            /\ consec' = [consec EXCEPT !["profile"] = 0]
            /\ profile' = IF r.ret THEN build_password_form(r.settings) ELSE profile
    /\ UNCHANGED <<mode, now, running, journal>>
    /\ UNCHANGED <<settingsVars, storeVars, cipherVars, pomodoroVars>>

\* ProfileWidget.change_password: the "protection enabled" form's Update button
ProfileChangePassword(current, new_password) ==
    /\ mode = "app" /\ running
    /\ profile = "protection_enabled"
    /\ IF current = "" \/ new_password = "" \/ Len(new_password) < 6 \/ current = new_password
       THEN UNCHANGED <<settings, pm, consec>>
       ELSE LET r == change_password(settings, pm["profile"], now, current, new_password) IN
            /\ settings' = r.settings
            /\ pm' = [pm EXCEPT !["profile"] = r.pm]
            /\ consec' = [consec EXCEPT !["profile"] = IF r.ret THEN 0 ELSE Failed(@)]
    /\ UNCHANGED <<mode, now, running, journal, profile>>
    /\ UNCHANGED <<settingsVars, storeVars, cipherVars, pomodoroVars>>

\* ProfileWidget.remove_password: the "protection enabled" form's Remove button
ProfileRemovePassword(current) ==
    /\ mode = "app" /\ running
    /\ profile = "protection_enabled"
    /\ IF current = ""
       THEN UNCHANGED <<settings, pm, journal, profile, consec>>
       ELSE LET r == remove_password(settings, pm["profile"], now, current) IN
            /\ settings' = r.settings
            /\ pm' = [pm EXCEPT !["profile"] = r.pm]
            /\ consec' = [consec EXCEPT !["profile"] = IF r.ret THEN 0 ELSE Failed(@)]
            /\ journal' = IF r.ret THEN handle_password_removed(journal) ELSE journal
            /\ profile' = IF r.ret THEN build_password_form(r.settings) ELSE profile
    /\ UNCHANGED <<mode, now, running>>
    /\ UNCHANGED <<settingsVars, storeVars, cipherVars, pomodoroVars>>

Next ==
    \/ Tick
    \/ Launch
    \/ Quit
    \/ \E p \in Passwords : JournalVerifyPassword(p)
    \/ JournalShowEvent
    \/ \E p \in Passwords, c \in Passwords : ProfileSetPassword(p, c)
    \/ \E c \in Passwords, n \in Passwords : ProfileChangePassword(c, n)
    \/ \E c \in Passwords : ProfileRemovePassword(c)
    \/ NewManager(Standalone)
    \/ \E p \in Passwords : SetPassword(Standalone, p)
    \/ \E p \in Passwords : VerifyPassword(Standalone, p)
    \/ \E c \in Passwords, n \in Passwords : ChangePassword(Standalone, c, n)
    \/ \E c \in Passwords : RemovePassword(Standalone, c)
    \/ IsLocked(Standalone)
    \/ GetLockoutRemaining(Standalone)

Spec == Init /\ [][Next]_vars

\* --------------------------------------------- the guard, the store failing
\* mode "fault": one PasswordManager whose methods are called in any order,
\* each call with a number of store calls that succeed before one fails.

InitFault ==
    /\ mode = "fault"
    /\ settings = set_default_settings({})
    /\ running = TRUE
    /\ journal = NewJournalWidget
    /\ profile = "protection_disabled"
    /\ GuardIdle
    /\ SettingsIdle /\ StoreIdle /\ CipherIdle /\ PomodoroIdle

\* the call has returned or raised: what it did to the table and the fields stays
Returned(r) ==
    /\ settings' = r.settings
    /\ pm' = [pm EXCEPT ![Standalone] = r.pm]
    /\ UNCHANGED <<mode, now, running, journal, profile, consec>>
    /\ UNCHANGED <<settingsVars, storeVars, cipherVars, pomodoroVars>>

FaultySetPassword(password, left) ==
    /\ mode = "fault"
    /\ Returned(set_password_faulty(Begin(settings, pm[Standalone], left), password))

FaultyVerifyPassword(password, left) ==
    /\ mode = "fault"
    /\ Returned(verify_password_faulty(Begin(settings, pm[Standalone], left), now, password))

FaultyChangePassword(current_password, new_password, left) ==
    /\ mode = "fault"
    /\ Returned(change_password_faulty(Begin(settings, pm[Standalone], left), now,
                                       current_password, new_password))

FaultyRemovePassword(current_password, left) ==
    /\ mode = "fault"
    /\ Returned(remove_password_faulty(Begin(settings, pm[Standalone], left), now,
                                       current_password))

NextFault ==
    \/ Tick
    \/ \E p \in Passwords, left \in StoreCalls : FaultySetPassword(p, left)
    \/ \E p \in Passwords, left \in StoreCalls : FaultyVerifyPassword(p, left)
    \/ \E c \in Passwords, n \in Passwords, left \in StoreCalls :
           FaultyChangePassword(c, n, left)
    \/ \E c \in Passwords, left \in StoreCalls : FaultyRemovePassword(c, left)

SpecFault == InitFault /\ [][NextFault]_vars

\* ------------------------------------------------ the journal's entries
\* mode "session": the entry pages' handlers are the only writers of the table.
\* mode "store": JournalEntry's methods are called as well, in any order.
\* Every call that writes a row takes time: the clock has moved on by a tick
\* when it returns.

guardVars == <<now, settings, running, pm, journal, profile, consec>>

\* a row whose text is in the encrypted_content column, dated entry_date
encrypted_row(encrypted_content, entry_date) ==
    [title |-> <<116, 50>>, content |-> << >>,
     encrypted_content |-> Some(encrypted_content),
     is_encrypted |-> TRUE, mood_rating |-> None,
     created_at |-> isoformat(combine_min(entry_date)),
     updated_at |-> isoformat(combine_min(entry_date))]

\* the database as the first start leaves it, or with one entry that
\* JournalEntry.create wrote on the day before, or with one encrypted entry
\* on the first date of the date selector
SeedStores ==
    {[entries |-> << >>, sqlite_sequence |-> 0],
     LET r == create(<< >>, 0, StartWall - 1, <<116, 49>>, <<97>>, None, FALSE) IN
     [entries |-> r.entries, sqlite_sequence |-> r.sqlite_sequence]}
    \cup {LET r == insert(<< >>, 0, encrypted_row(c, [date |-> 1])) IN
          [entries |-> r.entries, sqlite_sequence |-> r.sqlite_sequence] :
              c \in EncryptedContents}

\* the application is up with no journal password: the journal page shows its content
InitJournal ==
    /\ mode \in {"session", "store"}
    /\ settings = set_default_settings({})
    /\ running = TRUE
    /\ journal = check_authentication_state(settings, NewJournalWidget)
    /\ profile = build_password_form(settings)
    /\ GuardIdle
    /\ wall = StartWall
    /\ utc_offset \in UtcOffsets
    /\ \E seed \in SeedStores :
          /\ entries = seed.entries /\ sqlite_sequence = seed.sqlite_sequence
          /\ mode = "store" => seed.entries = << >>
    /\ session = NewSession
    /\ scheduled = 0
    /\ SettingsIdle /\ CipherIdle /\ PomodoroIdle

\* time passes
Pass ==
    /\ wall < MaxWall
    /\ wall' = wall + 1
    /\ UNCHANGED <<mode, guardVars, utc_offset, entries, sqlite_sequence, session, scheduled>>
    /\ UNCHANGED <<settingsVars, cipherVars, pomodoroVars>>

\* the dashboard lists the entry of row id
Listed(id) ==
    LET list == entries_list_layout(entries, session.search_query) IN
    \E k \in 1..Len(list) : list[k].id = id

\* New Entry on the dashboard
CreateNewEntry(selected_date) ==
    /\ journal.current_widget = "journal_stack"
    /\ session.journal_stack = "dashboard_widget"
    /\ session' = create_new_entry(session, entries, selected_date)
    /\ scheduled' = 0
    /\ UNCHANGED <<mode, guardVars, wall, utc_offset, entries, sqlite_sequence>>
    /\ UNCHANGED <<settingsVars, cipherVars, pomodoroVars>>

\* Edit on a listed entry: create_entry_widget binds the date of its created_at
EditEntry(id) ==
    /\ journal.current_widget = "journal_stack"
    /\ session.journal_stack = "dashboard_widget"
    /\ id \in DOMAIN entries /\ Listed(id)
    /\ session' = edit_entry(session, entries,
                            date_of(JournalEntry(id, entries[id]).created_at))
    /\ scheduled' = 0
    /\ UNCHANGED <<mode, guardVars, wall, utc_offset, entries, sqlite_sequence>>
    /\ UNCHANGED <<settingsVars, cipherVars, pomodoroVars>>

\* the user leaves txt in the editor
setPlainText(ss, txt) == [ss EXCEPT !.entry_text_edit = txt]

\* Save Entry on the entry page, with txt left in the editor
SaveEntry(txt) ==
    /\ journal.current_widget = "journal_stack"
    /\ session.journal_stack = "entry_widget"
    /\ wall < MaxWall /\ sqlite_sequence < MaxId /\ session.timers < MaxTimers
    /\ LET r == save_entry(journal, setPlainText(session, txt), entries, sqlite_sequence,
                           wall, utc_offset) IN
       /\ session' = r.session
       /\ entries' = r.entries
       /\ sqlite_sequence' = r.sqlite_sequence
       /\ wall' = IF r.session.timers = session.timers THEN wall ELSE wall + 1
       /\ scheduled' = scheduled + (r.session.timers - session.timers)
    /\ UNCHANGED <<mode, guardVars, utc_offset>>
    /\ UNCHANGED <<settingsVars, cipherVars, pomodoroVars>>

\* Back on the entry page
GoBack ==
    /\ journal.current_widget = "journal_stack"
    /\ session.journal_stack = "entry_widget"
    /\ session' = go_back_to_dashboard(session)
    /\ scheduled' = 0
    /\ UNCHANGED <<mode, guardVars, wall, utc_offset, entries, sqlite_sequence>>
    /\ UNCHANGED <<settingsVars, cipherVars, pomodoroVars>>

\* a QTimer.singleShot(1500, go_back_to_dashboard) of an earlier save fires:
\* the callbacks fire in the order they were scheduled
TimerFires ==
    /\ session.timers > 0
    /\ session' = [go_back_to_dashboard(session) EXCEPT !.timers = @ - 1]
    /\ scheduled' = 0
    /\ UNCHANGED <<mode, guardVars, wall, utc_offset, entries, sqlite_sequence>>
    /\ UNCHANGED <<settingsVars, cipherVars, pomodoroVars>>

\* the text of the search field on the dashboard changes to txt
FilterEntries(txt) ==
    /\ journal.current_widget = "journal_stack"
    /\ session.journal_stack = "dashboard_widget"
    /\ session' = filter_entries(session, txt)
    /\ UNCHANGED <<mode, guardVars, wall, utc_offset, entries, sqlite_sequence, scheduled>>
    /\ UNCHANGED <<settingsVars, cipherVars, pomodoroVars>>

\* Delete on a listed entry, and the answer to the confirmation dialog
DeleteEntry(id, result) ==
    /\ journal.current_widget = "journal_stack"
    /\ session.journal_stack = "dashboard_widget"
    /\ id \in DOMAIN entries /\ Listed(id)
    /\ wall < MaxWall
    /\ entries' = delete_entry(entries, JournalEntry(id, entries[id]), result)
    /\ wall' = IF result = "Yes" THEN wall + 1 ELSE wall
    /\ UNCHANGED <<mode, guardVars, utc_offset, sqlite_sequence, session, scheduled>>
    /\ UNCHANGED <<settingsVars, cipherVars, pomodoroVars>>

\* JournalEntry.create(title, content, mood_rating, is_encrypted)
Create(draft) ==
    /\ mode = "store"
    /\ wall < MaxWall /\ sqlite_sequence < MaxId
    /\ LET r == create(entries, sqlite_sequence, wall, draft.title, draft.content,
                       draft.mood_rating, draft.is_encrypted) IN
       /\ entries' = r.entries
       /\ sqlite_sequence' = r.sqlite_sequence
    /\ wall' = wall + 1
    /\ UNCHANGED <<mode, guardVars, utc_offset, session, scheduled>>
    /\ UNCHANGED <<settingsVars, cipherVars, pomodoroVars>>

\* JournalEntry.create_with_date(title, content, entry_date, mood_rating, is_encrypted)
CreateWithDate(draft, entry_date) ==
    /\ mode = "store"
    /\ wall < MaxWall /\ sqlite_sequence < MaxId
    /\ LET r == create_with_date(entries, sqlite_sequence, wall, utc_offset, draft.title,
                                 draft.content, entry_date, draft.mood_rating,
                                 draft.is_encrypted) IN
       /\ entries' = r.entries
       /\ sqlite_sequence' = r.sqlite_sequence
    /\ wall' = wall + 1
    /\ UNCHANGED <<mode, guardVars, utc_offset, session, scheduled>>
    /\ UNCHANGED <<settingsVars, cipherVars, pomodoroVars>>

\* entry.update(...) on the object get_all returned for row id
Update(id, patch) ==
    /\ mode = "store"
    /\ wall < MaxWall
    /\ id \in DOMAIN entries
    /\ entries' = update(entries, wall, utc_offset, JournalEntry(id, entries[id]),
                         patch.title, patch.content, patch.mood_rating).entries
    /\ wall' = wall + 1
    /\ UNCHANGED <<mode, guardVars, utc_offset, sqlite_sequence, session, scheduled>>
    /\ UNCHANGED <<settingsVars, cipherVars, pomodoroVars>>

\* entry.delete() on the object get_all returned for row id
Delete(id) ==
    /\ mode = "store"
    /\ wall < MaxWall
    /\ id \in DOMAIN entries
    /\ entries' = delete(entries, JournalEntry(id, entries[id]))
    /\ wall' = wall + 1
    /\ UNCHANGED <<mode, guardVars, utc_offset, sqlite_sequence, session, scheduled>>
    /\ UNCHANGED <<settingsVars, cipherVars, pomodoroVars>>

NextJournal ==
    \/ Pass
    \/ \E d \in Dates : CreateNewEntry(d)
    \/ \E id \in 1..MaxId : EditEntry(id)
    \/ \E txt \in EditorTexts : SaveEntry(txt)
    \/ GoBack
    \/ TimerFires
    \/ \E txt \in SearchTexts : FilterEntries(txt)
    \/ \E id \in 1..MaxId, result \in {"Yes", "No"} : DeleteEntry(id, result)
    \/ \E draft \in Drafts : Create(draft)
    \/ \E draft \in Drafts, entry_date \in EntryDates : CreateWithDate(draft, entry_date)
    \/ \E id \in 1..MaxId, patch \in Patches : Update(id, patch)
    \/ \E id \in 1..MaxId : Delete(id)

SpecJournal == InitJournal /\ [][NextJournal]_vars

\* ------------------------------------------------------------ the cipher
\* A text and a password are picked; the calls encrypt the text and decrypt
\* the ciphertext, with the password or with another one.

InitCipher ==
    /\ mode = "cipher"
    /\ plaintext \in CipherTexts
    /\ secret \in CipherPasswords
    /\ blob = None
    /\ decrypted = None
    /\ settings = {} /\ running = FALSE
    /\ journal = NewJournalWidget /\ profile = "protection_disabled"
    /\ GuardIdle /\ SettingsIdle /\ StoreIdle /\ PomodoroIdle

\* simple_encrypt(plaintext, secret)[0]; an exception leaves no ciphertext
SimpleEncrypt ==
    /\ LET r == simple_encrypt(plaintext, secret) IN
       blob' = IF r.raised THEN None ELSE Some(r.ret[1])
    /\ decrypted' = None
    /\ UNCHANGED <<mode, guardVars, plaintext, secret, settingsVars, storeVars, pomodoroVars>>

\* simple_decrypt(blob, pwd)
SimpleDecrypt(pwd) ==
    /\ blob # None
    /\ decrypted' = Some(simple_decrypt(blob[1], pwd))
    /\ UNCHANGED <<mode, guardVars, plaintext, secret, blob, settingsVars, storeVars, pomodoroVars>>

\* encrypt_with_master_key(plaintext)
EncryptWithMasterKey ==
    /\ LET r == encrypt_with_master_key(plaintext) IN
       blob' = IF r.raised THEN None ELSE Some(r.ret)
    /\ decrypted' = None
    /\ UNCHANGED <<mode, guardVars, plaintext, secret, settingsVars, storeVars, pomodoroVars>>

\* decrypt_with_master_key(blob)
DecryptWithMasterKey ==
    /\ blob # None
    /\ decrypted' = Some(decrypt_with_master_key(blob[1]))
    /\ UNCHANGED <<mode, guardVars, plaintext, secret, blob, settingsVars, storeVars, pomodoroVars>>

NextCipher ==
    \/ SimpleEncrypt
    \/ \E pwd \in CipherPasswords : SimpleDecrypt(pwd)
    \/ EncryptWithMasterKey
    \/ DecryptWithMasterKey

SpecCipher == InitCipher /\ [][NextCipher]_vars

\* ---------------------------------------------------- the settings store
\* set_setting is called with any key and value on the table that
\* initialize_database has filled; written records the last value stored
\* under each key.

InitSettings ==
    /\ mode = "settings"
    /\ settings = set_default_settings({})
    /\ written = DefaultSettings
    /\ running = FALSE
    /\ journal = NewJournalWidget /\ profile = "protection_disabled"
    /\ GuardIdle /\ StoreIdle /\ CipherIdle /\ PomodoroIdle

\* set_setting(key, value)
SetSetting(key, value) ==
    /\ settings' = set_setting(settings, key, value)
    /\ written' = [k \in (DOMAIN written) \cup {key} |-> IF k = key THEN value ELSE written[k]]
    /\ UNCHANGED <<mode, now, running, pm, journal, profile, consec, storeVars, cipherVars, pomodoroVars>>

\* initialize_database() of a later start
InitializeDatabase ==
    /\ settings' = set_default_settings(settings)
    /\ written' = [k \in (DOMAIN written) \cup (DOMAIN DefaultSettings) |->
                      IF k \in DOMAIN written THEN written[k] ELSE DefaultSettings[k]]
    /\ UNCHANGED <<mode, now, running, pm, journal, profile, consec, storeVars, cipherVars, pomodoroVars>>

NextSettings ==
    \/ \E key \in SettingKeys, value \in SettingValues : SetSetting(key, value)
    \/ InitializeDatabase

SpecSettings == InitSettings /\ [][NextSettings]_vars

\* ------------------------------------------------------ the pomodoro timer
\* mode "pomodoro": the page's buttons are pressed in any order while the
\* QTimer, once started with ui_timer.start(1000), fires every second until it
\* is stopped.

InitPomodoro ==
    /\ mode = "pomodoro"
    /\ settings = set_default_settings({})
    /\ running = TRUE
    /\ journal = NewJournalWidget
    /\ profile = "protection_disabled"
    /\ GuardIdle /\ SettingsIdle /\ StoreIdle /\ CipherIdle /\ PomodoroIdle

\* the Start button; no more than MaxSessions sessions are started
StartTimer ==
    /\ pomodoro.session_count < MaxSessions
    /\ pomodoro' = start_timer(pomodoro)
    /\ UNCHANGED <<mode, guardVars, settingsVars, storeVars, cipherVars, applies>>

\* the Pause button
PauseTimer ==
    /\ pomodoro' = pause_timer(pomodoro)
    /\ UNCHANGED <<mode, guardVars, settingsVars, storeVars, cipherVars, applies>>

\* the Reset button
ResetTimer ==
    /\ pomodoro' = reset_timer(pomodoro)
    /\ UNCHANGED <<mode, guardVars, settingsVars, storeVars, cipherVars, applies>>

\* the Apply Duration button, with the three fields as the user left them
ApplyDuration(fields) ==
    /\ applies < MaxApplies
    /\ applies' = applies + 1
    /\ pomodoro' = apply_duration(pomodoro, fields[1], fields[2], fields[3])
    /\ UNCHANGED <<mode, guardVars, settingsVars, storeVars, cipherVars>>

\* ui_timer's timeout, a second after the last one
UpdateTimer ==
    /\ pomodoro.ui_timer
    /\ pomodoro' = update_timer(pomodoro)
    /\ UNCHANGED <<mode, guardVars, settingsVars, storeVars, cipherVars, applies>>

NextPomodoro ==
    \/ StartTimer
    \/ PauseTimer
    \/ ResetTimer
    \/ \E fields \in DurationInputs : ApplyDuration(fields)
    \/ UpdateTimer

SpecPomodoro == InitPomodoro /\ [][NextPomodoro]_vars

\* an active QTimer keeps firing: the timeouts are not put off forever
FairPomodoro == SpecPomodoro /\ WF_vars(UpdateTimer)

\* ------------------------------------------------------------ the claims

StoredHash == get_setting(settings, "journal_password_hash", "")
StoredEnabled == get_setting(settings, "journal_password_enabled", "false")
LockoutTime == get_setting(settings, "journal_lockout_time", "0")

\* what is_locked() would return now on instance i
Locked(i) == is_locked(settings, pm[i], now).ret

\* what verify_password(p) would return and leave behind now on instance i
Verify(i, p) == verify_password(settings, pm[i], now, p)

\* the Locked state: 5 failures, and fewer than 60 seconds since the lockout timestamp
LockedState(i) ==
    pm[i].failed_attempts >= 5 /\ now - FloatOfStr(LockoutTime) < 60

\* the count a mismatch adds to: failed_attempts, or 0 once the window of an
\* earlier lockout has run out (the is_locked() call that opens verify_password
\* clears it)
CountBefore(i) == IF pm[i].failed_attempts >= 5 THEN 0 ELSE pm[i].failed_attempts

\* C1: with a password set, a PasswordManager is not locked after 1 to 4
\* consecutive verify_password failures, and is locked right after the 5th.
C1_LockoutThreshold ==
    [][\A i \in Instances :
          /\ consec'[i] \in 1..4 => ~Locked(i)'
          /\ (consec[i] = 4 /\ consec'[i] = 5) => (Locked(i)' /\ has_password(settings'))]_vars

C1_Witness ==
    \E i \in Instances : running /\ consec[i] = 5 /\ Locked(i) /\ has_password(settings)

\* C2: while an instance is locked, verify_password returns False for every
\* input, the correct password included, and leaves failed_attempts and the
\* settings table (the lockout timestamp with it) as they were.
C2_LockedRefusesWithoutConsuming ==
    \A i \in Instances, p \in Passwords :
        (running /\ LockedState(i)) =>
            LET r == Verify(i, p) IN
            /\ r.ret = FALSE
            /\ r.pm.failed_attempts = pm[i].failed_attempts
            /\ r.settings = settings

C2_Witness ==
    \E i \in Instances, p \in Passwords :
        /\ running /\ LockedState(i) /\ consec[i] = 5
        /\ hash_password(p) = StoredHash

\* C3: once 60 seconds have passed since the lockout timestamp, is_locked() on
\* an instance with 5 failures returns False, sets failed_attempts to 0 and the
\* stored lockout timestamp to '0'; the correct password then verifies.
C3_LockoutExpires ==
    \A i \in Instances :
        (running /\ pm[i].failed_attempts >= 5 /\ now - FloatOfStr(LockoutTime) >= 60) =>
            LET r == is_locked(settings, pm[i], now) IN
            /\ r.ret = FALSE
            /\ r.pm.failed_attempts = 0
            /\ get_setting(r.settings, "journal_lockout_time", "0") = "0"
            /\ \A p \in Passwords :
                  hash_password(p) = StoredHash =>
                      /\ verify_password(r.settings, r.pm, now, p).ret
                      /\ Verify(i, p).ret

C3_Witness ==
    \E i \in Instances, p \in Passwords :
        /\ running /\ pm[i].failed_attempts >= 5
        /\ LockoutTime # "0" /\ now - FloatOfStr(LockoutTime) >= 60
        /\ hash_password(p) = StoredHash

\* C4: with no password hash stored, no instance is locked, has_password() is
\* False, and every verify_password call returns True and leaves that so.
C4_OpenAccess ==
    (running /\ StoredHash = "") =>
        /\ ~has_password(settings)
        /\ \A i \in Instances : ~Locked(i)
        /\ \A i \in Instances, p \in Passwords :
              LET r == Verify(i, p) IN
              /\ r.ret = TRUE
              /\ ~has_password(r.settings)
              /\ get_setting(r.settings, "journal_password_hash", "") = ""
              /\ ~is_locked(r.settings, r.pm, now).ret

C4_Witness ==
    /\ running /\ StoredHash = "" /\ StoredEnabled = "false"
    /\ journal.is_authenticated
    /\ \A i \in Instances : pm[i].failed_attempts = 0
    /\ now > StartTime

\* C5: a launch while the stored journal_lockout_time is less than 60 seconds
\* old leaves every PasswordManager locked: is_locked() is True and
\* verify_password refuses every input.
C5_RestartKeepsLockout ==
    [][(~running /\ running' /\ LockoutTime # "0" /\ now - FloatOfStr(LockoutTime) < 60) =>
          \A i \in Instances :
              /\ Locked(i)'
              /\ \A p \in Passwords : ~Verify(i, p).ret']_vars

C7_SetPassword ==
    \A i \in Instances, p \in Passwords :
        running =>
            LET r == set_password(settings, pm[i], p) IN
            r.ret =>
                /\ has_password(r.settings)
                /\ r.pm.failed_attempts = 0
                /\ get_setting(r.settings, "journal_lockout_time", "0") = "0"
                /\ \A q \in Passwords :
                      verify_password(r.settings, r.pm, now, q).ret
                          = (hash_password(q) = hash_password(p))

C7_Witness ==
    \E i \in Instances :
        /\ running /\ has_password(settings)
        /\ StoredHash = hash_password("abc123") /\ LockoutTime = "0"
        /\ pm[i].failed_attempts = 0
        /\ Verify(i, "abc123").ret /\ ~Verify(i, "hunter2").ret
        /\ now > StartTime

\* current verifies on instance i: not locked, and no hash stored or the digests match
Verifies(i, current) ==
    ~LockedState(i) /\ (StoredHash = "" \/ hash_password(current) = StoredHash)

\* C8: change_password(current, new) with a current that does not verify
\* returns False, leaves the stored hash and the enabled flag alone and counts
\* one failed attempt (none when locked); with a current that verifies it
\* returns True, and then new verifies and a current other than new does not.
C8_ChangePassword ==
    \A i \in Instances, current \in Passwords, new \in Passwords :
        running =>
            LET r == change_password(settings, pm[i], now, current, new) IN
            IF ~Verifies(i, current)
            THEN /\ r.ret = FALSE
                 /\ get_setting(r.settings, "journal_password_hash", "") = StoredHash
                 /\ get_setting(r.settings, "journal_password_enabled", "false") = StoredEnabled
                 /\ r.pm.failed_attempts =
                        IF LockedState(i) THEN pm[i].failed_attempts ELSE CountBefore(i) + 1
            ELSE /\ r.ret = TRUE
                 /\ verify_password(r.settings, r.pm, now, new).ret
                 /\ new # current => ~verify_password(r.settings, r.pm, now, current).ret

C8_Witness ==
    \E i \in Instances, current \in Passwords :
        /\ running /\ StoredHash # ""
        /\ pm[i].failed_attempts \in 1..4
        /\ Verifies(i, current)

\* C9: remove_password(current) with a current that does not verify returns
\* False and leaves the stored hash and the enabled flag alone; with a current
\* that verifies it returns True, the hash is '', the flag is 'false',
\* has_password() is False and verify_password returns True on every instance.
C9_RemovePassword ==
    \A i \in Instances, current \in Passwords :
        running =>
            LET r == remove_password(settings, pm[i], now, current) IN
            IF ~Verifies(i, current)
            THEN /\ r.ret = FALSE
                 /\ get_setting(r.settings, "journal_password_hash", "") = StoredHash
                 /\ get_setting(r.settings, "journal_password_enabled", "false") = StoredEnabled
            ELSE /\ r.ret = TRUE
                 /\ get_setting(r.settings, "journal_password_hash", "") = ""
                 /\ get_setting(r.settings, "journal_password_enabled", "false") = "false"
                 /\ ~has_password(r.settings)
                 /\ \A j \in Instances, q \in Passwords :
                       verify_password(r.settings, IF j = i THEN r.pm ELSE pm[j], now, q).ret

C9_Witness ==
    \E i \in Instances, current \in Passwords :
        /\ running /\ has_password(settings)
        /\ Verifies(i, current)
        /\ \E j \in Instances : j # i /\ LockedState(j)

\* C10: the journal session becomes authenticated at launch only when
\* has_password() is False, and otherwise shows the password prompt and becomes
\* authenticated only by a verify_password call of its manager that returns
\* True; entries are loaded only while is_authenticated.
C10_SessionStep ==
    /\ (~running /\ running') =>
          IF has_password(settings')
          THEN ~journal'.is_authenticated /\ journal'.current_widget = "password_widget"
          ELSE journal'.is_authenticated /\ journal'.entries_loaded
    /\ (~journal.is_authenticated /\ journal'.is_authenticated) =>
          \/ ~running /\ running' /\ ~has_password(settings')
          \/ /\ running /\ running'
             /\ journal.current_widget = "password_widget"
             /\ \E p \in Passwords :
                   /\ Verify("journal", p).ret
                   /\ settings' = Verify("journal", p).settings
                   /\ pm'["journal"] = Verify("journal", p).pm

AllWhitespace(txt) == \A i \in 1..Len(txt) : txt[i] \in whitespace

\* txt from its first to its last character that is no whitespace
Trimmed(txt) ==
    LET idx == {i \in 1..Len(txt) : txt[i] \notin whitespace} IN
    IF idx = {} THEN << >>
    ELSE SubSeq(txt, CHOOSE i \in idx : \A k \in idx : i <= k,
                     CHOOSE i \in idx : \A k \in idx : i >= k)

\* the ids of the rows whose created_at is on date d
rows_on(e, d) == {i \in DOMAIN e : date_of(fromisoformat(e[i].created_at)) = d}

AtMostOnePerDate(e) == \A a \in DOMAIN e : rows_on(e, date_of(fromisoformat(e[a].created_at))) = {a}

\* every date the clock or the date selector can show
AllDates == {[date |-> n] : n \in 0..((MaxWall \div DayTicks) + 1)}

\* the editor is open on a date and the page is authenticated
Editing == journal.is_authenticated /\ session.current_entry_date # None

\* what save_entry would do now with txt in the editor
Save(txt) ==
    save_entry(journal, setPlainText(session, txt), entries, sqlite_sequence, wall, utc_offset)

\* C12: a save whose text is empty after trimming shows the validation
\* message and leaves the table as it is: no row inserted, no row updated, and
\* no return to the dashboard scheduled.
C12_EmptySaveRejected ==
    \A txt \in EditorTexts :
        (Editing /\ AllWhitespace(txt)) =>
            /\ Save(txt).entries = entries
            /\ Save(txt).sqlite_sequence = sqlite_sequence
            /\ Save(txt).session.save_feedback = "Entry cannot be empty"
            /\ Save(txt).session.timers = session.timers

C12_Witness ==
    /\ Editing /\ session.journal_stack = "entry_widget"
    /\ session.save_feedback = "Entry cannot be empty"
    /\ entries # << >> /\ session.timers = 1

\* C13: with the entry pages as the only writers, the table never holds two
\* entries of one date; a save on a date that has an entry changes that row
\* and adds none.
C13_OneEntryPerDate ==
    mode = "session" =>
        /\ AtMostOnePerDate(entries)
        /\ \A txt \in EditorTexts :
              (Editing /\ ~AllWhitespace(txt)) =>
                  LET d == session.current_entry_date[1] IN
                  /\ AtMostOnePerDate(Save(txt).entries)
                  /\ rows_on(entries, d) # {} =>
                        /\ DOMAIN Save(txt).entries = DOMAIN entries
                        /\ rows_on(Save(txt).entries, d) = rows_on(entries, d)
                        /\ Save(txt).sqlite_sequence = sqlite_sequence
                        /\ \A i \in rows_on(entries, d) :
                              Save(txt).entries[i].content = Trimmed(txt)

C13_Witness ==
    /\ mode = "session" /\ Editing
    /\ DOMAIN entries = {1} /\ sqlite_sequence = 1
    /\ rows_on(entries, session.current_entry_date[1]) = {1}
    /\ session.timers = 2 /\ wall = StartWall + 2
    /\ entries[1].created_at.sep = "T"
    /\ entries[1].updated_at = isoformat(datetime_now(wall - 1, utc_offset))

\* C14: a save on a date without an entry inserts one row, created_at the
\* midnight of the selected date and content the trimmed text; get_by_date of
\* that date then returns it, and a second save on the date replaces the
\* content of that row.
C14_SaveCreatesEntryOnSelectedDate ==
    \A txt \in EditorTexts :
        (Editing /\ ~AllWhitespace(txt) /\ rows_on(entries, session.current_entry_date[1]) = {}) =>
            LET d == session.current_entry_date[1]
                r == Save(txt)
                id == sqlite_sequence + 1
            IN  /\ DOMAIN r.entries = (DOMAIN entries) \cup {id}
                /\ id \notin DOMAIN entries
                /\ \A i \in DOMAIN entries : r.entries[i] = entries[i]
                /\ r.entries[id].created_at = [date |-> d.date, sep |-> "T", time |-> 0]
                /\ r.entries[id].content = Trimmed(txt)
                /\ get_by_date(r.entries, d) = Some(JournalEntry(id, r.entries[id]))
                /\ \A txt2 \in EditorTexts :
                      ~AllWhitespace(txt2) =>
                          LET r2 == save_entry(journal, setPlainText(r.session, txt2), r.entries,
                                               r.sqlite_sequence, wall + 1, utc_offset)
                          IN  /\ DOMAIN r2.entries = DOMAIN r.entries
                              /\ r2.entries[id].content = Trimmed(txt2)
                              /\ r2.entries[id].created_at = r.entries[id].created_at
                              /\ get_by_date(r2.entries, d) = Some(JournalEntry(id, r2.entries[id]))

C14_Witness ==
    \E id \in DOMAIN entries :
        /\ Editing /\ session.save_feedback = "Entry saved successfully"
        /\ entries[id].created_at = isoformat(combine_min(session.current_entry_date[1]))
        /\ entries[id].content = <<98, 32, 99>>
        /\ fromisoformat(entries[id].updated_at).date # session.current_entry_date[1].date
        /\ get_by_date(entries, session.current_entry_date[1]) = Some(JournalEntry(id, entries[id]))

\* C15: get_by_date(d) returns None exactly when no entry's created_at is on
\* date d, and otherwise an entry of date d with the greatest created_at,
\* whichever call wrote the entries.
C15_GetByDate ==
    \A d \in AllDates :
        LET r == get_by_date(entries, d) IN
        mode = "store" =>
        IF rows_on(entries, d) = {} THEN r = None
        ELSE /\ r # None
             /\ r[1].id \in rows_on(entries, d)
             /\ \A i \in rows_on(entries, d) :
                   ~datetime_lt(r[1].created_at, fromisoformat(entries[i].created_at))

\* what entry.update(...) would do now on the object get_all returns for row id
UpdateNow(id, patch) ==
    update(entries, wall, utc_offset, JournalEntry(id, entries[id]),
           patch.title, patch.content, patch.mood_rating)

\* C16: update with some of title, content and mood_rating supplied changes
\* those columns and fields and no other, leaves every other row alone, and
\* sets updated_at to a later timestamp than the row and the object had.
C16_PartialUpdate ==
    \A id \in DOMAIN entries, patch \in AllPatches :
        (mode = "store" /\ patch # [title |-> None, content |-> None, mood_rating |-> None]) =>
            LET self == JournalEntry(id, entries[id])
                r == UpdateNow(id, patch)
                row == r.entries[id]
            IN  /\ DOMAIN r.entries = DOMAIN entries
                /\ \A i \in DOMAIN entries : i # id => r.entries[i] = entries[i]
                /\ row.title = IF patch.title # None THEN patch.title[1] ELSE entries[id].title
                /\ row.content = IF patch.content # None THEN patch.content[1]
                                 ELSE entries[id].content
                /\ row.mood_rating = IF patch.mood_rating # None THEN patch.mood_rating
                                     ELSE entries[id].mood_rating
                /\ row.created_at = entries[id].created_at
                /\ row.is_encrypted = entries[id].is_encrypted
                /\ row.encrypted_content = entries[id].encrypted_content
                /\ r.self.id = id
                /\ r.self.title = IF patch.title # None THEN patch.title[1] ELSE self.title
                /\ r.self.content = IF patch.content # None THEN patch.content[1] ELSE self.content
                /\ r.self.mood_rating = IF patch.mood_rating # None THEN patch.mood_rating[1]
                                        ELSE self.mood_rating
                /\ r.self.created_at = self.created_at
                /\ r.self.is_encrypted = self.is_encrypted
                /\ datetime_lt(fromisoformat(entries[id].updated_at), fromisoformat(row.updated_at))
                /\ datetime_lt(self.updated_at, r.self.updated_at)

\* C17: every update call on a stored entry sets the row's updated_at to the
\* time of the call, the call without arguments too.
C17_UpdateRefreshesUpdatedAt ==
    \A id \in DOMAIN entries, patch \in AllPatches :
        mode = "store" =>
            UpdateNow(id, patch).entries[id].updated_at = isoformat(datetime_now(wall, utc_offset))

\* ------------------------------------------------ the claims on the cipher

\* C18: with a non-empty password, decrypting what simple_encrypt returned
\* with the same password gives the text back, and so does
\* decrypt_with_master_key on what encrypt_with_master_key returned.
C18_RoundTrip ==
    /\ secret # << >> =>
          /\ ~simple_encrypt(plaintext, secret).raised
          /\ simple_decrypt(simple_encrypt(plaintext, secret).ret[1], secret) = Return(plaintext)
    /\ ~encrypt_with_master_key(plaintext).raised
    /\ decrypt_with_master_key(encrypt_with_master_key(plaintext).ret) = Return(plaintext)

C18_Witness ==
    /\ plaintext = <<97, 233>> /\ secret = <<97, 98>>
    /\ blob = Some(simple_encrypt(plaintext, secret).ret[1])
    /\ blob # Some(encode(plaintext))
    /\ decrypted = Some(Return(plaintext))

\* C19: decrypting what simple_encrypt returned with another non-empty
\* password raises or returns a text other than the original.
C19_WrongKey ==
    \A pwd \in CipherPasswords :
        (secret # << >> /\ pwd # << >> /\ pwd # secret /\ blob # None
         /\ blob = Some(simple_encrypt(plaintext, secret).ret[1])) =>
            LET r == simple_decrypt(blob[1], pwd) IN
            r.raised \/ r.ret # plaintext

\* --------------------------------------- the claims on the settings store

\* the default a caller of get_setting passes
NoValue == "default"

\* C20: get_setting returns the value last stored under the key and the
\* caller's default for a key never stored; the table holds one row for each
\* key stored and none for the others; set_setting changes the value of its
\* key and of no other.
C20_SettingsStore ==
    /\ \A k \in SettingKeys :
          /\ get_setting(settings, k, NoValue) = IF k \in DOMAIN written THEN written[k] ELSE NoValue
          /\ Cardinality(rows_of(settings, k)) = IF k \in DOMAIN written THEN 1 ELSE 0
    /\ \A r \in settings : r.key \in DOMAIN written
    /\ \A k \in SettingKeys, v \in SettingValues :
          LET s1 == set_setting(settings, k, v) IN
          /\ get_setting(s1, k, NoValue) = v
          /\ \A k2 \in SettingKeys \ {k} :
                get_setting(s1, k2, NoValue) = get_setting(settings, k2, NoValue)

C20_Witness ==
    /\ mode = "settings"
    /\ "profile_last_updated" \notin DOMAIN written
    /\ get_setting(settings, "profile_last_updated", NoValue) = NoValue
    /\ get_setting(settings, "journal_lockout_time", NoValue) = "2024-01-15T10:30:00"
    /\ get_setting(settings, "journal_password_hash", NoValue) = "true"
    /\ get_setting(settings, "journal_password_enabled", NoValue) = "false"

\* C25: while the journal page's or the profile page's PasswordManager is
\* locked, a step that leaves the instance itself alone and ends fewer than 60
\* seconds after the lockout timestamp leaves it locked, whatever the other
\* page did to the shared settings table.
C25_LockedInstanceStaysLocked ==
    [][\A i \in {"journal", "profile"} :
          (/\ mode = "app" /\ running /\ running'
           /\ LockedState(i)
           /\ pm'[i] = pm[i]
           /\ now' - FloatOfStr(LockoutTime) < lockout_duration) => Locked(i)']_vars

\* C26: the stored password hash is non-empty exactly when
\* journal_password_enabled is 'true', in every state the guard's calls reach
\* from the default settings.
C26_HashIffEnabled ==
    /\ (StoredHash # "") <=> (StoredEnabled = "true")
    /\ (StoredHash # "") <=> has_password(settings)

\* the journal page still asks for the password of this run's launch, and the
\* profile page has removed it since
C26_Witness ==
    /\ mode = "app" /\ running
    /\ journal.current_widget = "password_widget"
    /\ profile = "protection_disabled"
    /\ StoredHash = "" /\ StoredEnabled = "false"

\* C27: failed_attempts of every PasswordManager is within 0..5 in every
\* reachable state, and every verify_password call leaves it there.
C27_FailedAttemptsRange ==
    \A i \in Instances :
        /\ pm[i].failed_attempts \in 0..5
        /\ \A p \in Passwords : running => Verify(i, p).pm.failed_attempts \in 0..5

C27_Witness ==
    \E i \in Instances, p \in Passwords :
        /\ running /\ LockedState(i) /\ pm[i].failed_attempts = 5
        /\ hash_password(p) # StoredHash
        /\ now > FloatOfStr(LockoutTime)

\* C28: a launch leaves every row of the settings table in place: the rows of
\* an existing database are the same after initialize_database, and so are what
\* has_password() and the lockout timestamp read.
C28_RestartKeepsSettings ==
    [][(~running /\ running') =>
          /\ \A r \in settings : r \in settings'
          /\ settings # {} => settings' = settings
          /\ has_password(settings') = has_password(settings)
          /\ LockoutTime' = LockoutTime]_vars

C28_Witness ==
    /\ mode = "app" /\ running
    /\ has_password(settings)
    /\ journal.current_widget = "password_widget" /\ ~journal.is_authenticated
    /\ \A i \in Instances : pm[i].failed_attempts = 0

\* the ids of a list of entries
Ids(entry_list) == {entry_list[k].id : k \in 1..Len(entry_list)}

\* the entry matches the query: the date text holds it, or the content or the
\* title holds it whatever the case of the letters
Matches(entry, query) ==
    \/ is_in(query, strftime_ymd(date_of(entry.created_at)))
    \/ is_in(lower(query), lower(entry.content))
    \/ is_in(lower(query), lower(entry.title))

\* C21: the journal's search lists, for a non-empty query, exactly the entries
\* whose date text, content or title holds the query, each once and however
\* many they are; for the empty query it lists the 10 newest entries.
C21_Search ==
    \A query \in Queries :
        LET all_entries == get_all(entries)
            listed == entries_list_layout(entries, query)
        IN  IF query = << >>
            THEN listed = SubSeq(all_entries, 1,
                                 IF Len(all_entries) < 10 THEN Len(all_entries) ELSE 10)
            ELSE /\ Ids(listed) = {all_entries[k].id : k \in
                                      {n \in 1..Len(all_entries) : Matches(all_entries[n], query)}}
                 /\ Len(listed) = Cardinality(Ids(listed))

\* C22: get_content_preview is "[Encrypted Entry]" for every entry whose
\* is_encrypted flag is set (when max_length leaves room for the literal); for
\* the others it is the content when that has at most max_length characters,
\* and its first max_length characters and "..." when it has more.
C22_ContentPreview ==
    \A id \in DOMAIN entries, max_length \in PreviewLengths :
        LET entry == JournalEntry(id, entries[id])
            preview == get_content_preview(entry, max_length)
        IN  IF entry.is_encrypted
            THEN max_length >= Len(encrypted_entry) => preview = encrypted_entry
            ELSE IF Len(entry.content) <= max_length
                 THEN preview = entry.content
                 ELSE preview = SubSeq(entry.content, 1, max_length) \o <<46, 46, 46>>

\* the entry the editor loads for date d is encrypted and the master key does
\* not decrypt it
Undecryptable(e, d) ==
    LET found == first_on_date(get_all(e), d) IN
    /\ found # None
    /\ found[1].is_encrypted
    /\ found[1].encrypted_content # None /\ found[1].encrypted_content[1] # << >>
    /\ decrypt_with_master_key(found[1].encrypted_content[1]).raised

\* C23: a step that opens the editor on a date whose entry is encrypted and
\* does not decrypt puts the placeholder in the editor, opens the entry page
\* on that date, and leaves the journal page unlocked and the table as it was.
C23_UndecryptableEntryOpens ==
    [][(/\ session.journal_stack = "dashboard_widget"
        /\ session'.current_entry_date # None
        /\ Undecryptable(entries, session'.current_entry_date[1])) =>
           /\ session'.entry_text_edit = unable_to_decrypt
           /\ session'.journal_stack = "entry_widget"
           /\ journal' = journal /\ journal'.is_authenticated
           /\ entries' = entries /\ sqlite_sequence' = sqlite_sequence]_vars

C23_Witness ==
    /\ session.journal_stack = "entry_widget"
    /\ session.current_entry_date # None
    /\ Undecryptable(entries, session.current_entry_date[1])
    /\ session.entry_text_edit = unable_to_decrypt
    /\ journal.is_authenticated

\* C29: a return-to-dashboard callback that fires while the editor is open in
\* an editing session that did not schedule it leaves that session open: its
\* current_entry_date and the entry page stay.
C29_CallbackClosesOnlyItsSession ==
    [][(/\ session'.timers < session.timers
        /\ session.journal_stack = "entry_widget"
        /\ scheduled < session.timers) =>
           /\ session'.current_entry_date = session.current_entry_date
           /\ session'.journal_stack = "entry_widget"]_vars

\* the calls of the guard's four methods in the current state, with `left`
\* store calls succeeding
FaultyCalls(left) ==
    LET c == Begin(settings, pm[Standalone], left) IN
    [set_password |-> {set_password_faulty(c, p) : p \in Passwords},
     others |-> {verify_password_faulty(c, now, p) : p \in Passwords}
                \cup {change_password_faulty(c, now, p, n) : p \in Passwords, n \in Passwords}
                \cup {remove_password_faulty(c, now, p) : p \in Passwords}]

\* C24: a call of set_password, verify_password, change_password or
\* remove_password in which a store call fails returns False and does not
\* raise; set_password returns False in no other case.
C24_StoreFailureReturnsFalse ==
    \A left \in StoreCalls :
        /\ \A r \in FaultyCalls(left).set_password \cup FaultyCalls(left).others :
              r.failed => (~r.raised /\ r.ret = FALSE)
        /\ \A r \in FaultyCalls(left).set_password : (r.ret = FALSE) => r.failed

\* C30: a running pomodoro timer whose ticks keep arriving stops running, and
\* without a pause or a reset it stops by finishing: the tick that ends the
\* countdown adds exactly one to session_count and puts time_remaining back to
\* applied_duration; is_running and is_paused are never both true.
C30_CountdownFinishes ==
    /\ pomodoro.is_running ~> ~pomodoro.is_running
    /\ [][(pomodoro.is_running /\ applies' = applies
              /\ ~pomodoro'.is_running /\ ~pomodoro'.is_paused
              /\ pomodoro'.session_count # pomodoro.session_count) =>
             /\ pomodoro'.session_count = pomodoro.session_count + 1
             /\ pomodoro'.time_remaining = pomodoro'.applied_duration]_vars
    /\ [](~(pomodoro.is_running /\ pomodoro.is_paused))

====
